---------------------------- MODULE Spec2Model ----------------------------
(***************************************************************************)
(* A model of the flex-reviews repository: the Hostaway reviews route      *)
(* (flex-reviews/src/app/api/reviews/hostaway/route.ts), i.e. the live     *)
(* fetch with its fallback to the bundled fixture, the normalisation of    *)
(* upstream records and the filter/sort pipeline of GET, and the public    *)
(* reviews view that merges server approvals with the browser-local        *)
(* approval map.                                                           *)
(*                                                                         *)
(* JavaScript values are modelled as follows.                              *)
(*   - a string is a sequence of one-character strings, so that            *)
(*     toLowerCase, trim, split, includes and Number are computed;         *)
(*   - null / undefined / an absent property is None (the empty tuple),    *)
(*     a present value v is Some(v) (the one-element tuple);               *)
(*   - a number is an integer; the result of a numeric conversion is a     *)
(*     record [fin, v], fin = FALSE standing for NaN or an infinity;       *)
(*   - a timestamp string is a record [fmt, day, sec]: fmt tells which     *)
(*     textual form the string has, day and sec which instant it names.    *)
(***************************************************************************)
EXTENDS Integers, Sequences, FiniteSets, TLC

VARIABLES
    env,          \* process.env: HOSTAWAY_ACCOUNT_ID and HOSTAWAY_API_KEY
    useLive,      \* USE_LIVE: both Hostaway credentials are configured
    MOCK_CACHE,   \* the fixture once loadMock has read it
    fixtureFile,  \* data/mock-reviews.json: readable, missing, or not JSON
    tokenCache,   \* the access token and its expiry
    now,          \* Date.now(), in milliseconds
    req,          \* the GET requests being served, by request
    qRows,        \* SpecQuery: the collection loaded by the handler (rows after the try/catch)
    qSource,      \* SpecQuery: where qRows came from
    qParams,      \* SpecQuery: the query parameters of the request
    qResp,        \* SpecQuery: the response to it
    page,         \* SpecLoad: the body the reviews endpoint answers with
    localStorage, \* the browser's item 'approvals': absent, or the stored map
    dash,         \* the dashboard page's approval map, by browser tab
    pub,          \* the public reviews page: its slug, reviews and approvals
    gKey,         \* process.env.GOOGLE_MAPS_API_KEY
    greq          \* the GET request of the Google route being served

liveVars == <<env, useLive, MOCK_CACHE, fixtureFile, tokenCache, now, req>>
queryVars == <<qRows, qSource, qParams, qResp, page>>
viewVars == <<localStorage, dash, pub>>
googleVars == <<gKey, greq>>
vars == <<liveVars, queryVars, viewVars, googleVars>>

-----------------------------------------------------------------------------
(* Optional values *)

None == <<>>
Some(v) == <<v>>
IsSome(x) == x # None
Val(x) == x[1]

\* a ?? b
Coalesce(a, b) == IF a # None THEN a ELSE b

-----------------------------------------------------------------------------
(* Sequences *)

RECURSIVE SelectIdx(_, _, _)
\* the indices i >= from of s, in increasing order, with keep[i]
SelectIdx(keep, n, from) ==
    IF from > n THEN <<>>
    ELSE IF keep[from] THEN <<from>> \o SelectIdx(keep, n, from + 1)
    ELSE SelectIdx(keep, n, from + 1)

Reverse(s) == [i \in 1..Len(s) |-> s[Len(s) + 1 - i]]

Range(s) == {s[i] : i \in DOMAIN s}

-----------------------------------------------------------------------------
(* JavaScript strings: sequences of characters *)

UpperChars == <<"A","B","C","D","E","F","G","H","I","J","K","L","M",
                "N","O","P","Q","R","S","T","U","V","W","X","Y","Z">>
LowerChars == <<"a","b","c","d","e","f","g","h","i","j","k","l","m",
                "n","o","p","q","r","s","t","u","v","w","x","y","z">>
DigitChars == <<"0","1","2","3","4","5","6","7","8","9">>

LowerChar(c) ==
    IF \E i \in DOMAIN UpperChars : UpperChars[i] = c
    THEN LowerChars[CHOOSE i \in DOMAIN UpperChars : UpperChars[i] = c]
    ELSE c

\* String.prototype.toLowerCase
ToLowerCase(s) == [i \in DOMAIN s |-> LowerChar(s[i])]

IsDigit(c) == \E i \in DOMAIN DigitChars : DigitChars[i] = c
DigitVal(c) == (CHOOSE i \in DOMAIN DigitChars : DigitChars[i] = c) - 1
IsSpace(c) == c = " "

RECURSIVE TrimLeft(_)
TrimLeft(s) == IF s # <<>> /\ IsSpace(Head(s)) THEN TrimLeft(Tail(s)) ELSE s
RECURSIVE TrimRight(_)
TrimRight(s) ==
    IF s # <<>> /\ IsSpace(s[Len(s)]) THEN TrimRight(SubSeq(s, 1, Len(s) - 1)) ELSE s
\* String.prototype.trim
Trim(s) == TrimRight(TrimLeft(s))

\* String.prototype.includes
Includes(hay, needle) ==
    \E i \in 0..(Len(hay) - Len(needle)) :
        SubSeq(hay, i + 1, i + Len(needle)) = needle

RECURSIVE SplitComma(_, _)
\* String.prototype.split(","): cur is the piece being read
SplitComma(s, cur) ==
    IF s = <<>> THEN <<cur>>
    ELSE IF Head(s) = "," THEN <<cur>> \o SplitComma(Tail(s), <<>>)
    ELSE SplitComma(Tail(s), Append(cur, Head(s)))

RECURSIVE DecimalValue(_, _)
DecimalValue(s, acc) ==
    IF s = <<>> THEN acc ELSE DecimalValue(Tail(s), 10 * acc + DigitVal(Head(s)))

NaN == [fin |-> FALSE, v |-> 0]
Finite(n) == [fin |-> TRUE, v |-> n]

\* Number(s) for a string s over digits, "-", blanks and letters: surrounding
\* white space is ignored, the empty string is 0, an optional minus sign and
\* decimal digits are a number, anything else is NaN.
NumberOfString(s) ==
    LET t == Trim(s)
        u == IF t # <<>> /\ Head(t) = "-" THEN Tail(t) ELSE t
    IN  IF t = <<>> THEN Finite(0)
        ELSE IF u # <<>> /\ \A i \in DOMAIN u : IsDigit(u[i])
             THEN Finite(IF u = t THEN DecimalValue(u, 0) ELSE 0 - DecimalValue(u, 0))
             ELSE NaN

RECURSIVE DigitsOf(_)
DigitsOf(n) ==
    IF n < 10 THEN <<DigitChars[n + 1]>>
    ELSE Append(DigitsOf(n \div 10), DigitChars[(n % 10) + 1])

\* String(n) for a number: its decimal digits; String(NaN) is "NaN"
StringOfNumber(n) ==
    IF ~n.fin THEN <<"N","a","N">>
    ELSE IF n.v < 0 THEN <<"-">> \o DigitsOf(0 - n.v)
    ELSE DigitsOf(n.v)

-----------------------------------------------------------------------------
(* Timestamps.  A timestamp string is [fmt, day, sec]:                     *)
(*   fmt = "space"  "YYYY-MM-DD HH:mm:ss"   (the Hostaway form)            *)
(*   fmt = "isoZ"   "YYYY-MM-DDTHH:mm:ssZ"                                 *)
(*   fmt = "date"   "YYYY-MM-DD"                                           *)
(*   fmt = "junk"   a string Date.parse cannot read                        *)
(* day counts the days since 1970-01-01 and sec the seconds since          *)
(* midnight of the instant the string names.                               *)

SecPerDay == 24 * 60 * 60
EndOfDaySec == SecPerDay - 1        \* 23:59:59

TS(f, d, s) == [fmt |-> f, day |-> d, sec |-> s]
Junk == TS("junk", 0, 0)
EpochSpace == TS("space", 0, 0)     \* "1970-01-01 00:00:00"

\* Date.parse: epoch milliseconds, or NaN.  A date-only string is midnight
\* UTC of that date; the server's time zone is UTC, so that the form without
\* a zone designator names the same instant as the one with "Z".
DateParse(t) ==
    IF t.fmt = "junk" THEN NaN
    ELSE IF t.fmt = "date" THEN Finite(t.day * SecPerDay * 1000)
    ELSE Finite((t.day * SecPerDay + t.sec) * 1000)

\* s.replace(" ", "T") + "Z": the Hostaway form becomes an ISO instant; a
\* string that already ends in "Z" (or is unreadable) becomes unreadable.
ReplaceSpaceAddZ(t) ==
    IF t.fmt = "space" THEN TS("isoZ", t.day, t.sec) ELSE TS("junk", t.day, t.sec)

\* s.includes(" ")
HasSpace(t) == t.fmt = "space"

\* new Date(s).toISOString().slice(0, 19).replace("T", " ") for a readable s
ToSpaceForm(t) == TS("space", t.day, IF t.fmt = "date" THEN 0 ELSE t.sec)

-----------------------------------------------------------------------------
(* Words used by the program and by the data *)

Hostaway == <<"H","o","s","t","a","w","a","y">>
GuestToHost == <<"g","u","e","s","t","-","t","o","-","h","o","s","t">>
HostToGuest == <<"h","o","s","t","-","t","o","-","g","u","e","s","t">>
Published == <<"p","u","b","l","i","s","h","e","d">>
Draft == <<"d","r","a","f","t">>
UnknownProperty == <<"U","n","k","n","o","w","n"," ","P","r","o","p","e","r","t","y">>
GuestWord == <<"G","u","e","s","t">>
ChannelPrefix == <<"c","h","a","n","n","e","l",":">>
PublicWord == <<"p","u","b","l","i","c">>
TrueWord == <<"t","r","u","e">>
DateWord == <<"d","a","t","e">>
RatingWord == <<"r","a","t","i","n","g">>
AscWord == <<"a","s","c">>
DescWord == <<"d","e","s","c">>

\* data: listings, guests, review texts, categories, channels
Studio == <<"S","t","u","d","i","o">>
Loft == <<"L","o","f","t">>
Amara == <<"A","m","a","r","a">>
Leo == <<"L","e","o">>
TextClean == <<"c","l","e","a","n">>
TextNoisy == <<"n","o","i","s","y">>
Cleanliness == <<"c","l","e","a","n","l","i","n","e","s","s">>
Value == <<"v","a","l","u","e">>
Google == <<"G","o","o","g","l","e">>

\* ids: a JSON number (num) or a JSON string, s being its text
NumId(n) == [num |-> TRUE, s |-> DigitsOf(n)]
StrId(s) == [num |-> FALSE, s |-> s]

CR(c, r) == [category |-> c, rating |-> r]

-----------------------------------------------------------------------------
(* The bundled fixture data/mock-reviews.json, as scripts/generate-mock.js *)
(* writes it: numeric ids counting up, a type, status "published", an      *)
(* overall rating or null, every category once, a Hostaway-form            *)
(* submittedAt; no channel, no ISO timestamp, no approved flag.            *)

FirstMockId == 7000

makeReview(id, ty, rating, text, cats, at, guest, listing) ==
    [ id |-> NumId(id), type |-> Some(ty), status |-> Some(Published),
      channel |-> None, rating |-> rating, publicReview |-> text,
      reviewCategory |-> cats, submittedAt |-> at, submittedAtIso |-> None,
      submittedAtTs |-> None, guestName |-> guest, listingName |-> listing,
      approved |-> None ]

MockReviews ==
    << makeReview(FirstMockId, GuestToHost, Some(9), TextClean,
                  <<CR(Cleanliness, Some(9)), CR(Value, Some(8))>>,
                  TS("space", 2, 36900), Amara, Studio),
       makeReview(FirstMockId + 1, GuestToHost, None, TextNoisy,
                  <<CR(Cleanliness, None), CR(Value, Some(6))>>,
                  TS("space", 2, 36900), Leo, Studio),
       makeReview(FirstMockId + 2, HostToGuest, Some(7), TextClean,
                  <<CR(Cleanliness, Some(8)), CR(Value, None)>>,
                  TS("space", 1, 80000), Leo, Loft) >>

-----------------------------------------------------------------------------
(* Upstream (Hostaway) records and their normalisation *)

\* a HostawayReviewLike with no property set
RawEmpty ==
    [ id |-> None, reviewId |-> None, uid |-> None, uuid |-> None,
      listingName |-> None, propertyName |-> None, listing |-> None, property |-> None,
      guestName |-> None, reviewerName |-> None, guest |-> None, authorName |-> None,
      publicReview |-> None, review |-> None, comment |-> None, text |-> None,
      status |-> None, channel |-> None, source |-> None, platform |-> None,
      channelId |-> None, type |-> None, direction |-> None,
      rating |-> None, overallRating |-> None, score |-> None,
      reviewCategory |-> None, categories |-> None,
      submittedAtIso |-> None, createdAt |-> None, date |-> None, created |-> None,
      updatedAt |-> None, submittedAt |-> None,
      approved |-> None, isApproved |-> None, visibility |-> None ]

\* a string used as a condition: null, undefined and "" are false
Truthy(x) == x # None /\ Val(x) # <<>>
\* a timestamp string used as a condition
TruthyTs(x) == x # None /\ Val(x).fmt # "empty"

Thrown == [ok |-> FALSE]
Returned(v) == [ok |-> TRUE, value |-> v]

\* category ratings forced into the scale 0..10
normalizeCategories_Clamped(raw) ==
    LET clamp(r) == IF r = None THEN None
                    ELSE Some(IF Val(r) > 10 THEN 10 ELSE IF Val(r) < 0 THEN 0 ELSE Val(r))
    IN  IF raw.reviewCategory # None
        THEN LET arr == Val(raw.reviewCategory)
                 mapped == [i \in DOMAIN arr |->
                              CR(Coalesce(arr[i].category, Some(<<>>))[1], clamp(arr[i].rating))]
             IN  SelectSeq(mapped, LAMBDA cr : Len(cr.category) > 0)
        ELSE IF raw.categories # None
        THEN LET ent == Val(raw.categories)
             IN  [i \in DOMAIN ent |-> CR(ent[i][1], clamp(ent[i][2]))]
        ELSE <<>>

\* reviewCategory of normalizeHostaway: raw.reviewCategory is None or Some of a
\* sequence of {category, rating} objects, raw.categories None or Some of a
\* sequence of <<name, value>> entries in insertion order
normalizeCategories(raw) ==
    IF raw.reviewCategory # None
    THEN LET arr == Val(raw.reviewCategory)
             mapped == [i \in DOMAIN arr |->
                          CR(Coalesce(arr[i].category, Some(<<>>))[1], arr[i].rating)]
         IN  SelectSeq(mapped, LAMBDA cr : Len(cr.category) > 0)
    ELSE IF raw.categories # None
    THEN LET ent == Val(raw.categories)
         IN  [i \in DOMAIN ent |-> CR(ent[i][1], ent[i][2])]
    ELSE <<>>

\* an approved flag taken from the explicit flags only, false without one
approvedFlag_ExplicitOnly(raw) ==
    Coalesce(raw.approved, Coalesce(raw.isApproved, Some(FALSE)))

\* approved of normalizeHostaway:
\* raw.approved ?? raw.isApproved ?? (raw.visibility === "public" ? true : undefined)
approvedFlag(raw) ==
    Coalesce(raw.approved, Coalesce(raw.isApproved,
        IF raw.visibility = Some(PublicWord) THEN Some(TRUE) ELSE None))

\* normalizeHostaway(raw); rnd is the text Math.random() yields for a record
\* without id.  raw = None is a null entry of the page: reading a property of
\* it throws, as does toISOString() of an unreadable date.
normalizeHostaway(rawOpt, rnd) ==
    IF rawOpt = None THEN Thrown
    ELSE
    LET raw == Val(rawOpt)
        id == Coalesce(raw.id, Coalesce(raw.reviewId, Coalesce(raw.uid,
                  Coalesce(raw.uuid, Some(StrId(rnd))))))
        listingName == Coalesce(raw.listingName, Coalesce(raw.propertyName,
                  Coalesce(raw.listing, Coalesce(raw.property, Some(UnknownProperty)))))
        guestName == Coalesce(raw.guestName, Coalesce(raw.reviewerName,
                  Coalesce(raw.guest, Coalesce(raw.authorName, Some(GuestWord)))))
        publicReview == Coalesce(raw.publicReview, Coalesce(raw.review,
                  Coalesce(raw.comment, Coalesce(raw.text, Some(<<>>)))))
        status == Coalesce(raw.status, Some(Published))
        channel == Coalesce(raw.channel, Coalesce(raw.source, Coalesce(raw.platform,
                  IF Truthy(raw.channelId)
                  THEN Some(ChannelPrefix \o Val(raw.channelId)) ELSE None)))
        type == Coalesce(raw.type, raw.direction)
        rating == Coalesce(raw.rating, Coalesce(raw.overallRating, raw.score))
        iso == Coalesce(raw.submittedAtIso, Coalesce(raw.createdAt, Coalesce(raw.date,
                  Coalesce(raw.created, raw.updatedAt))))
        approved == approvedFlag(raw)
    IN  IF raw.submittedAt = None /\ TruthyTs(iso) /\ ~DateParse(Val(iso)).fin
        THEN Thrown
        ELSE Returned(
          [ id |-> Val(id), type |-> type, status |-> status, channel |-> channel,
            rating |-> rating, publicReview |-> Val(publicReview),
            reviewCategory |-> normalizeCategories(raw),
            submittedAt |->
                IF raw.submittedAt # None THEN Val(raw.submittedAt)
                ELSE IF TruthyTs(iso) THEN ToSpaceForm(Val(iso)) ELSE EpochSpace,
            submittedAtIso |-> iso,
            submittedAtTs |-> IF TruthyTs(iso) THEN Some(DateParse(Val(iso))) ELSE None,
            guestName |-> Val(guestName), listingName |-> Val(listingName),
            approved |-> approved ])

-----------------------------------------------------------------------------
(* Utilities of the route *)

\* toEpochMs(r)
toEpochMs(r) ==
    IF r.submittedAtTs # None /\ Val(r.submittedAtTs).fin THEN Val(r.submittedAtTs).v
    ELSE IF TruthyTs(r.submittedAtIso) /\ DateParse(Val(r.submittedAtIso)).fin
    THEN DateParse(Val(r.submittedAtIso)).v
    ELSE LET isoGuess == IF HasSpace(r.submittedAt)
                         THEN ReplaceSpaceAddZ(r.submittedAt) ELSE r.submittedAt
             t2 == DateParse(isoGuess)
         IN  IF t2.fin THEN t2.v ELSE 0

\* parseNumber with Number(s) || 0 in place of the finiteness test
parseNumber_NaNIsZero(s) ==
    IF ~Truthy(s) THEN None
    ELSE LET n == NumberOfString(Val(s)) IN IF n.fin THEN Some(n.v) ELSE Some(0)

\* parseNumber(s): null for null, "" and what Number does not read as finite
parseNumber(s) ==
    IF ~Truthy(s) THEN None
    ELSE LET n == NumberOfString(Val(s)) IN IF n.fin THEN Some(n.v) ELSE None

\* parseCsvLower(s)
parseCsvLower(s) ==
    IF ~Truthy(s) THEN None
    ELSE LET parts == SplitComma(Val(s), <<>>)
             lowered == [i \in DOMAIN parts |-> ToLowerCase(Trim(parts[i]))]
         IN  Some(SelectSeq(lowered, LAMBDA x : x # <<>>))

\* icaseEq(a, b): localeCompare with sensitivity "accent" ignores case only
icaseEq(a, b) == ToLowerCase(a) = ToLowerCase(b)

-----------------------------------------------------------------------------
(* The GET handler of the Hostaway route after its rows are loaded.        *)
(* A query is the record of searchParams.get(name) for each name the       *)
(* clients send: None when the parameter is absent, Some(text) otherwise;  *)
(* from and to are timestamp strings (fmt "empty" is the empty string).    *)

NoQuery ==
    [ listing |-> None, q |-> None, category |-> None, min |-> None,
      type |-> None, channel |-> None, approvedOnly |-> None,
      from |-> None, to |-> None, sort |-> None, order |-> None,
      page |-> None, limit |-> None ]

\* the defaults pass: rows.map(r => ({...r, channel, type, rating, submittedAtIso}))
ApplyDefaults(rows) ==
    [i \in DOMAIN rows |->
        [rows[i] EXCEPT
            !.channel = Coalesce(@, Some(Hostaway)),
            !.type = Coalesce(@, Some(GuestToHost)),
            !.submittedAtIso =
                Coalesce(@, IF rows[i].submittedAt.fmt # "empty"
                            THEN Some(ReplaceSpaceAddZ(rows[i].submittedAt))
                            ELSE None)]]

\* if (listing) rows = rows.filter(r => icaseEq(r.listingName, listing))
FilterListing(rows, p) ==
    IF Truthy(p.listing)
    THEN SelectSeq(rows, LAMBDA r : icaseEq(r.listingName, Val(p.listing)))
    ELSE rows

\* if (q) ... hay.includes(needle)
FilterQ(rows, p) ==
    IF Truthy(p.q)
    THEN LET needle == ToLowerCase(Val(p.q))
         IN  SelectSeq(rows, LAMBDA r :
                Includes(ToLowerCase(r.guestName \o <<" ">> \o r.listingName
                                     \o <<" ">> \o r.publicReview), needle))
    ELSE rows

\* if (types && types.length > 0) ...
FilterType(rows, p) ==
    LET types == parseCsvLower(p.type)
    IN  IF types # None /\ Len(Val(types)) > 0
        THEN SelectSeq(rows, LAMBDA r :
                ToLowerCase(Val(Coalesce(r.type, Some(<<>>)))) \in Range(Val(types)))
        ELSE rows

\* if (channels && channels.length > 0) ...
FilterChannel(rows, p) ==
    LET channels == parseCsvLower(p.channel)
    IN  IF channels # None /\ Len(Val(channels)) > 0
        THEN LET allow == {ToLowerCase(c) : c \in Range(Val(channels))}
             IN  SelectSeq(rows, LAMBDA r :
                    ToLowerCase(Val(Coalesce(r.channel, Some(Hostaway)))) \in allow)
        ELSE rows

\* r.reviewCategory?.find(c => c.category === category): the first entry of that name
FindCategory(r, category) ==
    LET idx == {i \in DOMAIN r.reviewCategory : r.reviewCategory[i].category = category}
    IN  IF idx = {} THEN None
        ELSE Some(r.reviewCategory[CHOOSE i \in idx : \A j \in idx : i <= j])

\* the predicate of the category filter
CategoryHit(r, category, min) ==
    LET hit == FindCategory(r, category)
    IN  /\ hit # None
        /\ IF min = None THEN Val(hit).rating # None
           ELSE Val(hit).rating # None /\ Val(Val(hit).rating) >= Val(min)

\* if (category) ...
FilterCategory(rows, p) ==
    IF Truthy(p.category)
    THEN SelectSeq(rows, LAMBDA r : CategoryHit(r, Val(p.category), parseNumber(p.min)))
    ELSE rows

\* if (approvedOnly) rows = rows.filter(r => r.approved === true)
FilterApproved(rows, p) ==
    IF p.approvedOnly = Some(TrueWord)
    THEN SelectSeq(rows, LAMBDA r : r.approved = Some(TRUE))
    ELSE rows

\* fromMs / toMs: fromStr ? Date.parse(fromStr) : null
ParseBound(x) == IF TruthyTs(x) THEN Some(DateParse(Val(x))) ELSE None

\* the predicate of the date filter
InDateRange(r, fromMs, toMs) ==
    LET t == toEpochMs(r)
    IN  /\ ~(fromMs # None /\ Val(fromMs).fin /\ t < Val(fromMs).v)
        /\ ~(toMs # None /\ Val(toMs).fin /\ t > Val(toMs).v)

FilterDate(rows, p) ==
    SelectSeq(rows, LAMBDA r : InDateRange(r, ParseBound(p.from), ParseBound(p.to)))

\* the filters with the category filter run on the unfiltered rows
ApplyFilters_FromAllRows(rows, p) ==
    FilterDate(FilterApproved(FilterCategory(rows, p), p), p)

\* the filters preceded by a filter on status === "published"
ApplyFilters_PublishedOnly(rows, p) ==
    FilterDate(FilterApproved(FilterCategory(FilterChannel(FilterType(
        FilterQ(FilterListing(
            SelectSeq(rows, LAMBDA r : r.status = Some(Published)), p), p), p), p), p), p), p)

\* the filters in the order the handler applies them
ApplyFilters(rows, p) ==
    FilterDate(FilterApproved(FilterCategory(FilterChannel(FilterType(
        FilterQ(FilterListing(rows, p), p), p), p), p), p), p)

\* Array.prototype.sort with a comparator, cmp[j][i] being its value on
\* (s[j], s[i]): stable, so an element goes before another iff it compares
\* lower, or compares equal and came first
StableSort(s, cmp) ==
    LET pos(i) == 1 + Cardinality({j \in DOMAIN s :
                        \/ cmp[j][i] < 0
                        \/ (cmp[j][i] = 0 /\ j < i)})
    IN  [k \in DOMAIN s |-> s[CHOOSE i \in DOMAIN s : pos(i) = k]]

\* (a, b) => toEpochMs(a) - toEpochMs(b)
CompareDate(a, b) == toEpochMs(a) - toEpochMs(b)

\* the comparator with a missing rating counted as -1
CompareRating_NullLowest(a, b) ==
    (IF a.rating = None THEN -1 ELSE Val(a.rating))
        - (IF b.rating = None THEN -1 ELSE Val(b.rating))

\* the comparator of sort === "rating"
CompareRating(a, b) ==
    IF a.rating = None /\ b.rating = None THEN 0
    ELSE IF a.rating = None THEN 1
    ELSE IF b.rating = None THEN -1
    ELSE Val(a.rating) - Val(b.rating)

\* sort = (searchParams.get("sort") || "").toLowerCase()
SortKey(p) == ToLowerCase(IF Truthy(p.sort) THEN Val(p.sort) ELSE <<>>)
\* the order parameter compared as it was sent
SortOrder_CaseSensitive(p) == IF Truthy(p.order) THEN Val(p.order) ELSE DescWord

\* order = (searchParams.get("order") || "desc").toLowerCase()
SortOrder(p) == ToLowerCase(IF Truthy(p.order) THEN Val(p.order) ELSE DescWord)

\* the sorting block with a descending comparator in place of the reversal
ApplySort_DescComparator(rows, p) ==
    LET Desc == SortOrder(p) = DescWord
        ByDate == [j \in DOMAIN rows |-> [i \in DOMAIN rows |->
                     IF Desc THEN 0 - CompareDate(rows[j], rows[i])
                     ELSE CompareDate(rows[j], rows[i])]]
        ByRating == [j \in DOMAIN rows |-> [i \in DOMAIN rows |->
                       IF Desc THEN 0 - CompareRating(rows[j], rows[i])
                       ELSE CompareRating(rows[j], rows[i])]]
    IN  IF SortKey(p) = DateWord THEN StableSort(rows, ByDate)
        ELSE IF SortKey(p) = RatingWord THEN StableSort(rows, ByRating)
        ELSE IF Desc THEN Reverse(rows) ELSE rows

\* the sorting block without the reversal after a sort by date
ApplySort_DateIgnoresOrder(rows, p) ==
    LET ByDate == [j \in DOMAIN rows |-> [i \in DOMAIN rows |->
                     CompareDate(rows[j], rows[i])]]
        ByRating == [j \in DOMAIN rows |-> [i \in DOMAIN rows |->
                       CompareRating(rows[j], rows[i])]]
    IN  IF SortKey(p) = DateWord THEN StableSort(rows, ByDate)
        ELSE IF SortKey(p) = RatingWord
        THEN (IF SortOrder(p) = DescWord THEN Reverse(StableSort(rows, ByRating))
              ELSE StableSort(rows, ByRating))
        ELSE IF SortOrder(p) = DescWord THEN Reverse(rows) ELSE rows

\* the sorting block, and the reversal that follows it
ApplySort(rows, p) ==
    LET ByDate == [j \in DOMAIN rows |-> [i \in DOMAIN rows |->
                     CompareDate(rows[j], rows[i])]]
        ByRating == [j \in DOMAIN rows |-> [i \in DOMAIN rows |->
                       CompareRating(rows[j], rows[i])]]
        sorted == IF SortKey(p) = DateWord THEN StableSort(rows, ByDate)
                  ELSE IF SortKey(p) = RatingWord THEN StableSort(rows, ByRating)
                  ELSE rows
    IN  IF SortOrder(p) = DescWord THEN Reverse(sorted) ELSE sorted

\* NextResponse.json({status, result}, {headers: {"x-source": source}})
JsonResponse(rows, source) ==
    [ http |-> 200, body |-> [status |-> "success", result |-> rows],
      xSource |-> source ]

\* what the framework answers when GET throws: HTTP 500, no JSON body and
\* no x-source header
Uncaught500 == [ http |-> 500, body |-> None, xSource |-> "" ]

\* GET with the result cut to the first `limit` rows (default 25, 1..100)
RespondTo_Paged(rows, source, p) ==
    LET all == ApplySort(ApplyFilters(ApplyDefaults(rows), p), p)
        n == parseNumber(p.limit)
        limit == IF n = None THEN 25
                 ELSE IF Val(n) < 1 THEN 1 ELSE IF Val(n) > 100 THEN 100 ELSE Val(n)
    IN  JsonResponse(SubSeq(all, 1, IF Len(all) < limit THEN Len(all) ELSE limit), source)

\* GET from the defaults pass to the response, for the rows and the source
\* the try/catch block has left
RespondTo(rows, source, p) ==
    JsonResponse(ApplySort(ApplyFilters(ApplyDefaults(rows), p), p), source)

-----------------------------------------------------------------------------
(* Upstream data of the model: pages of the live reviews endpoint *)

\* the upstream record that carries exactly the properties of a fixture row
RawOfRow(m) ==
    [RawEmpty EXCEPT
        !.id = Some(m.id), !.type = m.type, !.status = m.status,
        !.rating = m.rating, !.publicReview = Some(m.publicReview),
        !.reviewCategory = Some([i \in DOMAIN m.reviewCategory |->
            [category |-> Some(m.reviewCategory[i].category),
             rating |-> m.reviewCategory[i].rating]]),
        !.submittedAt = Some(m.submittedAt),
        !.guestName = Some(m.guestName), !.listingName = Some(m.listingName)]

\* an unpublished review, named by alias properties, approved by visibility
RawDraft ==
    [RawEmpty EXCEPT
        !.reviewId = Some(NumId(11)), !.status = Some(Draft),
        !.propertyName = Some(Studio), !.reviewerName = Some(Amara),
        !.comment = Some(TextNoisy), !.overallRating = Some(10),
        !.categories = Some(<< <<Cleanliness, Some(10)>> >>),
        !.createdAt = Some(TS("isoZ", 3, 0)),
        !.visibility = Some(PublicWord)]

\* a review from another channel with a text id, the same category twice,
\* submitted in the last second of day 2
RawGoogle ==
    [RawEmpty EXCEPT
        !.uuid = Some(StrId(<<"a","1">>)), !.source = Some(Google),
        !.listingName = Some(Loft), !.guestName = Some(Leo),
        !.text = Some(TextClean), !.score = Some(5),
        !.reviewCategory = Some(<< [category |-> Some(Cleanliness), rating |-> None],
                                   [category |-> Some(Cleanliness), rating |-> Some(9)] >>),
        !.submittedAt = Some(TS("space", 2, EndOfDaySec)),
        !.approved = Some(FALSE)]

\* an approved review whose listing name differs in case, with an
\* out-of-range category rating, submitted at midnight of day 2
RawUpper ==
    [RawEmpty EXCEPT
        !.id = Some(NumId(12)), !.listingName = Some(<<"S","T","U","D","I","O">>),
        !.authorName = Some(Leo), !.review = Some(TextClean), !.rating = Some(9),
        !.direction = Some(HostToGuest),
        !.reviewCategory = Some(<< [category |-> Some(Cleanliness), rating |-> Some(-1)] >>),
        !.submittedAt = Some(TS("space", 2, 0)),
        !.isApproved = Some(TRUE)]

RandomId == <<"k","3","x">>

RawPool ==
    {RawOfRow(MockReviews[i]) : i \in DOMAIN MockReviews} \cup {RawDraft, RawGoogle, RawUpper}

\* the rows fetchLiveReviews can return for one record of the pool
LivePool == {normalizeHostaway(Some(raw), RandomId).value : raw \in RawPool}

MaxRows == 3

\* live pages: up to MaxRows different rows, in any order
LivePages ==
    UNION {{pg \in [1..n -> LivePool] : \A i, j \in 1..n : i # j => pg[i] # pg[j]}
            : n \in 1..MaxRows}

-----------------------------------------------------------------------------
(* Queries of the model *)

Day(d) == TS("date", d, 0)
EmptyTs == TS("empty", 0, 0)

\* every combination of one value per filter, in collection order
FilterQueries ==
    { [NoQuery EXCEPT !.listing = l, !.q = q, !.type = t, !.channel = c,
                      !.category = cm[1], !.min = cm[2], !.approvedOnly = a,
                      !.from = f, !.to = u, !.order = Some(AscWord)] :
        l \in {None, Some(<<"s","t","u","d","i","o">>)},
        q \in {None, Some(<<"L","E","O">>)},
        t \in {None, Some(<<"x",","," ","G","u","e","s","t","-","t","o","-","h","o","s","t">>)},
        c \in {None, Some(<<"h","o","s","t","a","w","a","y">>)},
        cm \in { <<None, None>>, <<Some(Cleanliness), None>>,
                 <<Some(Cleanliness), Some(<<"8">>)>> },
        a \in {None, Some(TrueWord)},
        f \in {None, Some(Day(2))},
        u \in {None, Some(Day(2))} }

\* sort keys and orders, on all rows and on one listing
SortQueries ==
    { [NoQuery EXCEPT !.listing = l, !.sort = s, !.order = o] :
        l \in {None, Some(Studio)},
        s \in {None, Some(DateWord), Some(RatingWord), Some(<<"R","a","t","i","n","g">>),
               Some(<<"i","d">>)},
        o \in {None, Some(<<>>), Some(AscWord), Some(DescWord), Some(<<"D","E","S","C">>),
               Some(<<"u","p">>)} }

\* values of min, with and without a category
MinQueries ==
    { [NoQuery EXCEPT !.category = c, !.min = m, !.order = Some(AscWord)] :
        c \in {None, Some(Cleanliness), Some(Value)},
        m \in {None, Some(<<>>), Some(<<" ">>), Some(<<"a","b","c">>), Some(<<"8">>),
               Some(<<"0","8">>), Some(<<"-","1">>), Some(<<"1","1">>)} }

\* values of from and to
DateQueries ==
    { [NoQuery EXCEPT !.from = f, !.to = u, !.order = Some(AscWord)] :
        f \in {None, Some(EmptyTs), Some(Junk), Some(Day(1)), Some(Day(2)), Some(Day(3))},
        u \in {None, Some(EmptyTs), Some(Junk), Some(Day(1)), Some(Day(2)), Some(Day(3))} }

\* page and limit, which the dashboard's clients may send
PageQueries ==
    { [NoQuery EXCEPT !.page = pg, !.limit = lm, !.order = o] :
        pg \in {None, Some(<<"1">>), Some(<<"2">>), Some(<<"x">>)},
        lm \in {None, Some(<<"1">>), Some(<<"0">>), Some(<<"2","0","0">>), Some(<<"x">>)},
        o \in {None, Some(AscWord)} }

Queries == FilterQueries \cup SortQueries \cup MinQueries \cup DateQueries \cup PageQueries

-----------------------------------------------------------------------------
(* The browser: the item 'approvals' of localStorage, the dashboard page   *)
(* that writes it and the public reviews page that reads it.  A JavaScript *)
(* object used as a map is a function from its property keys (strings) to  *)
(* its values; JSON.stringify followed by JSON.parse returns an object     *)
(* with string keys and boolean values as it was.                          *)

MaxTabs == 1

Tabs == 1..MaxTabs

EmptyObject == <<>>

\* m[key]: the value, or undefined
Lookup(m, key) == IF key \in DOMAIN m THEN Some(m[key]) ELSE None

\* Number(r.id): a JSON number is itself, a JSON string is converted
NumberOfId(id) ==
    IF id.num THEN Finite(DecimalValue(id.s, 0)) ELSE NumberOfString(id.s)

\* the property key an id is used as in m[id]: String(id)
PropertyKey(id) ==
    IF id.num THEN StringOfNumber(Finite(DecimalValue(id.s, 0))) ELSE id.s

\* JSON.parse(localStorage.getItem('approvals') || '{}')
ReadApprovals == IF localStorage = None THEN EmptyObject ELSE Val(localStorage)

\* toggle of useApprovals: m => ({ ...m, [id]: !m[id] })
toggle(m, id) ==
    LET key == PropertyKey(id)
    IN  [k \in DOMAIN m \cup {key} |->
            IF k = key THEN ~(Lookup(m, key) = Some(TRUE)) ELSE m[k]]

ClosedDashboard == [pc |-> "closed", reviews |-> <<>>, map |-> EmptyObject]

ClosedPage ==
    [pc |-> "closed", slug |-> <<>>, reviews |-> <<>>, approvals |-> EmptyObject]

\* the browser before any page is opened
ViewIdle ==
    /\ localStorage = None
    /\ dash = [t \in Tabs |-> ClosedDashboard]
    /\ pub = ClosedPage

\* the request of the dashboard with its filters unset: sort=date&order=desc
DashboardQuery == [NoQuery EXCEPT !.sort = Some(DateWord), !.order = Some(DescWord)]

\* the request of the public page: listing=slug&sort=date&order=desc
PublicQuery(slug) ==
    [NoQuery EXCEPT !.listing = Some(slug), !.sort = Some(DateWord),
                    !.order = Some(DescWord)]

\* Array.isArray(d?.result) ? d.result : []
ResultOf(resp) == resp.body.result

\* the list the public page renders: server-approved or locally approved
approved(reviews, approvals) ==
    SelectSeq(reviews, LAMBDA r :
        \/ r.approved = Some(TRUE)
        \/ Lookup(approvals, StringOfNumber(NumberOfId(r.id))) = Some(TRUE))

-----------------------------------------------------------------------------
(* The route as a whole: concurrent GET requests, the token cache, the     *)
(* upstream endpoints and the fallback to the fixture.  A request stops    *)
(* where the handler awaits a fetch; the upstream's answer resumes it.     *)

MaxRequests == 2
MaxTicks == 2
MaxTokens == 2

Requests == 1..MaxRequests
TickMs == 60 * 1000

\* started is the now of getHostawayToken, j the expires_in of the token
\* response it has read (None before a response, Some(None) when the response
\* has no expires_in)
IdleRequest ==
    [ pc |-> "idle", p |-> NoQuery, started |-> 0, j |-> None, token |-> None,
      fault |-> "none", resp |-> None ]

\* the state of the route's module before any request
LiveIdle ==
    /\ env = [ACCOUNT_ID |-> None, API_KEY |-> None]
    /\ useLive = FALSE
    /\ MOCK_CACHE = None
    /\ fixtureFile = "readable"
    /\ tokenCache = None
    /\ now = 0
    /\ req = [i \in Requests |-> IdleRequest]

\* the Google route at rest, while the Hostaway route or the pages are explored
IdleGoogle ==
    [pc |-> "idle", listing |-> <<>>, placeId |-> <<>>, fault |-> "none",
     data |-> None, resp |-> None]
GoogleIdle ==
    /\ gKey = None
    /\ greq = IdleGoogle

\* the state of the query variables while the whole route is explored
NoPage == [shape |-> "array", items |-> <<>>]

QueryIdle ==
    /\ page = NoPage
    /\ qRows = <<>>
    /\ qSource = "mock"
    /\ qParams = None
    /\ qResp = None

\* loadMock(): the cached fixture or, on the first call, the file's result
\* array; readFileSync throws on a missing file, JSON.parse on other text
loadMock ==
    IF MOCK_CACHE # None THEN Returned(Val(MOCK_CACHE))
    ELSE IF fixtureFile = "readable" THEN Returned(MockReviews)
    ELSE Thrown

\* a catch block that logs the error and leaves rows and source as they were
CatchFallback_LogsOnly(mock) == [rows |-> <<>>, source |-> "mock"]

\* the catch block of GET: rows and source after a failure of the live path
CatchFallback(mock) == [rows |-> mock, source |-> "live-error-fallback"]

\* getResultArray(v): v is [shape, items]; a bare array and an object with an
\* array result yield the array, anything else yields []
getResultArray(v) == IF v.shape \in {"array", "result"} THEN v.items ELSE <<>>

\* a map behind a schema check that passes only records whose submittedAt is
\* a string of at least 10 characters
normalizeAll_SchemaChecked(items, rnd) ==
    LET passes(e) == e = None \/ (Val(e).submittedAt # None
                                  /\ Val(Val(e).submittedAt).fmt \notin {"junk", "empty"})
        valid == SelectSeq(items, passes)
        out == [i \in DOMAIN valid |-> normalizeHostaway(valid[i], rnd \o DigitsOf(i))]
    IN  IF \E i \in DOMAIN out : ~out[i].ok THEN Thrown
        ELSE Returned([i \in DOMAIN out |-> out[i].value])

\* a map that leaves out the records normalizeHostaway throws on
normalizeAll_SkipBad(items, rnd) ==
    LET out == [i \in DOMAIN items |-> normalizeHostaway(items[i], rnd \o DigitsOf(i))]
        good == SelectSeq(out, LAMBDA o : o.ok)
    IN  Returned([n \in DOMAIN good |-> good[n].value])

\* a map that keeps, of the records with one id, the first only
normalizeAll_FirstWins(items, rnd) ==
    LET out == [i \in DOMAIN items |-> normalizeHostaway(items[i], rnd \o DigitsOf(i))]
        first(i) == \A k \in 1..(i - 1) : out[k].value.id # out[i].value.id
        kept == SelectSeq([i \in DOMAIN out |-> i], first)
    IN  IF \E i \in DOMAIN out : ~out[i].ok THEN Thrown
        ELSE Returned([n \in DOMAIN kept |-> out[kept[n]].value])

\* arrUnknown.map(u => normalizeHostaway(u)): throws when one record throws;
\* Math.random() yields another text at every call
normalizeAll(items, rnd) ==
    LET out == [i \in DOMAIN items |-> normalizeHostaway(items[i], rnd \o DigitsOf(i))]
    IN  IF \E i \in DOMAIN out : ~out[i].ok THEN Thrown
        ELSE Returned([i \in DOMAIN out |-> out[i].value])

\* the try block of GET once the reviews response has been read
LoadLive(data, rnd, mock) ==
    LET live == normalizeAll(getResultArray(data), rnd)
    IN  IF ~live.ok THEN CatchFallback(mock)
        ELSE IF Len(live.value) > 0 THEN [rows |-> live.value, source |-> "live"]
        ELSE [rows |-> mock, source |-> "live-empty-fallback"]

\* a store that writes the token and leaves the expiry of a cached pair
StoreToken_KeepExpiry(cache, tok, exp) ==
    Some([token |-> tok, exp |-> IF cache = None THEN exp ELSE Val(cache).exp])

\* tokenCache = { token: j.access_token, exp }
StoreToken(cache, tok, exp) == Some([token |-> tok, exp |-> exp])

\* an expiry without the margin of 60 s
TokenExpiry_NoMargin(started, expiresIn) ==
    started + Val(Coalesce(expiresIn, Some(3600))) * 1000

\* exp of getHostawayToken: now + max(0, (Number(expires_in ?? 3600) - 60) * 1000)
TokenExpiry(started, expiresIn) ==
    LET secs == Val(Coalesce(expiresIn, Some(3600))) - 60
    IN  started + (IF secs > 0 THEN secs * 1000 ELSE 0)

\* upstream data of the model
RawBadDate ==
    [RawEmpty EXCEPT !.id = Some(NumId(13)), !.listingName = Some(Studio),
                     !.createdAt = Some(Junk)]
\* the bodies the reviews endpoint answers with: an object with a result
\* array, a bare array without records, an object without result, a page with
\* a null entry, a page with a record whose only date is unreadable
ReviewsBodies ==
    { [shape |-> "result", items |-> <<Some(RawDraft), Some(RawGoogle)>>],
      [shape |-> "array", items |-> <<>>],
      [shape |-> "other", items |-> <<Some(RawDraft)>>],
      [shape |-> "result", items |-> <<Some(RawDraft), None>>],
      [shape |-> "array", items |-> <<Some(RawBadDate), Some(RawGoogle)>>] }

\* expires_in of a token response, in seconds: absent, shorter than the
\* margin of 60 s, longer than it
ExpiresIns == {None, Some(30), Some(120)}

TokenFaults == {"token-rejected", "token-not-ok", "token-body-unreadable"}
ReviewsFaults == {"reviews-rejected", "reviews-not-ok", "reviews-body-unreadable"}

\* the queries sent while the whole route is explored
LiveQueries ==
    { NoQuery,
      [NoQuery EXCEPT !.listing = Some(Studio), !.sort = Some(RatingWord)] }

\* a variable of process.env: unset, set to the empty string, set
EnvValues == {None, Some(<<>>), Some(<<"k","1">>)}
Envs == [ACCOUNT_ID : EnvValues, API_KEY : EnvValues]

\* live as soon as one of the two credentials is set
USE_LIVE_Either(accountId, apiKey) == Truthy(accountId) \/ Truthy(apiKey)

\* USE_LIVE = !!(ACCOUNT_ID && API_KEY)
USE_LIVE(accountId, apiKey) == Truthy(accountId) /\ Truthy(apiKey)

Init ==
    /\ env \in Envs
    /\ useLive = USE_LIVE(env.ACCOUNT_ID, env.API_KEY)
    /\ MOCK_CACHE = None
    /\ fixtureFile = "readable"
    /\ tokenCache = None
    /\ now = 0
    /\ req = [i \in Requests |-> IdleRequest]
    /\ QueryIdle
    /\ ViewIdle
    /\ GoogleIdle

\* the request ends with the response for rows and source
Finish(i, p, loaded, fault) ==
    /\ req' = [req EXCEPT ![i] = [IdleRequest EXCEPT !.pc = "done", !.p = p,
                   !.fault = fault,
                   !.resp = Some(RespondTo(loaded.rows, loaded.source, p))]]

\* a cache check that still serves the token at the millisecond it expires
tokenIsFresh_AtExpiry(cache, t) == cache # None /\ t <= Val(cache).exp

\* if (tokenCache && now < tokenCache.exp) return tokenCache.token
tokenIsFresh(cache, t) == cache # None /\ t < Val(cache).exp

\* a handler that works on the array loadMock() returns, without copies
RowsAndCache_Shared(cache, p) ==
    LET h0 == <<cache>>
        h1 == [h0 EXCEPT ![1] = ApplySort(ApplyFilters(ApplyDefaults(@), p), p)]
    IN  [cache |-> h1[1], rows |-> h1[1]]

\* the arrays of GET when its rows come from the fixture.  h is the heap of
\* arrays, array 1 the one MOCK_CACHE refers to: slice(), map() and filter()
\* each allocate an array, sort() and reverse() change the array rows refers
\* to in place.  The result is array 1 and the rows after the request.
RowsAndCache(cache, p) ==
    LET h0 == <<cache>>
        h1 == Append(h0, h0[1])                          \* loadMock().slice()
        h2 == Append(h1, ApplyDefaults(h1[2]))           \* rows.map(...)
        h3 == Append(h2, ApplyFilters(h2[3], p))         \* rows.filter(...)
        h4 == [h3 EXCEPT ![4] = ApplySort(@, p)]         \* rows.sort(), rows.reverse()
    IN  [cache |-> h4[1], rows |-> h4[4]]

\* the request ends with rows from loadMock(): loaded is the outcome when
\* the fixture can be had; when loadMock throws, in the try block and again
\* in the catch block, or in the catch block alone, GET throws
FinishFromMock(i, p, loaded, fault) ==
    IF loadMock.ok
    THEN /\ Finish(i, p, loaded, fault)
         /\ MOCK_CACHE' = Some(RowsAndCache(loadMock.value, p).cache)
    ELSE /\ req' = [req EXCEPT ![i] = [IdleRequest EXCEPT !.pc = "done", !.p = p,
                        !.fault = fault, !.resp = Some(Uncaught500)]]
         /\ UNCHANGED MOCK_CACHE

\* the fixture's rows where FinishFromMock uses them
MockRows == IF loadMock.ok THEN loadMock.value ELSE <<>>

\* GET is called with query p and runs to its first await: without
\* credentials it answers from the fixture; with them getHostawayToken
\* returns the cached token while now < exp, or requests a new one
GetStart(i, p) ==
    /\ req[i].pc = "idle"
    /\ IF ~useLive
       THEN /\ FinishFromMock(i, p, [rows |-> MockRows, source |-> "mock"], "none")
            /\ UNCHANGED <<tokenCache, now, useLive, env, fixtureFile>>
       ELSE /\ IF tokenIsFresh(tokenCache, now)
               THEN req' = [req EXCEPT ![i] = [@ EXCEPT !.pc = "reviews", !.p = p,
                               !.token = Some(Val(tokenCache).token)]]
               ELSE req' = [req EXCEPT ![i] = [@ EXCEPT !.pc = "token", !.p = p,
                               !.started = now]]
            /\ UNCHANGED <<MOCK_CACHE, tokenCache, now, useLive, env, fixtureFile>>
    /\ UNCHANGED <<queryVars, viewVars, googleVars>>

\* a failed token request that also empties the cache
TokenFails_ClearsCache(i, fault) ==
    /\ req[i].pc = "token"
    /\ FinishFromMock(i, req[i].p, CatchFallback(MockRows), fault)
    /\ tokenCache' = None
    /\ UNCHANGED <<now, useLive, env, fixtureFile, queryVars, viewVars, googleVars>>

\* the token request fails: rejected, not ok, or a body that is no JSON
TokenFails(i, fault) ==
    /\ req[i].pc = "token"
    /\ FinishFromMock(i, req[i].p, CatchFallback(MockRows), fault)
    /\ UNCHANGED <<tokenCache, now, useLive, env, fixtureFile, queryVars, viewVars, googleVars>>

\* the token request succeeds: the token is cached and the reviews requested
TokenArrives(i, tok, expiresIn) ==
    /\ req[i].pc = "token"
    /\ tokenCache' = StoreToken(tokenCache, tok, TokenExpiry(req[i].started, expiresIn))
    /\ req' = [req EXCEPT ![i] = [@ EXCEPT !.pc = "reviews", !.started = 0,
                                             !.j = Some(expiresIn),
                                             !.token = Some(tok)]]
    /\ UNCHANGED <<MOCK_CACHE, now, useLive, env, fixtureFile, queryVars, viewVars, googleVars>>

\* the reviews request fails: rejected, not ok, or a body that is no JSON
ReviewsFail(i, fault) ==
    /\ req[i].pc = "reviews"
    /\ FinishFromMock(i, req[i].p, CatchFallback(MockRows), fault)
    /\ UNCHANGED <<tokenCache, now, useLive, env, fixtureFile, queryVars, viewVars, googleVars>>

\* the reviews request succeeds with a JSON body
ReviewsArrive(i, data) ==
    /\ req[i].pc = "reviews"
    /\ LET loaded == LoadLive(data, RandomId, MockRows)
           fault == IF loaded.source = "live-error-fallback"
                    THEN "normalize-throws" ELSE "none"
       IN  IF loaded.source = "live"
           THEN Finish(i, req[i].p, loaded, fault) /\ UNCHANGED MOCK_CACHE
           ELSE FinishFromMock(i, req[i].p, loaded, fault)
    /\ UNCHANGED <<tokenCache, now, useLive, env, fixtureFile, queryVars, viewVars, googleVars>>

\* the client has its response; the next request may use the slot
Deliver(i) ==
    /\ req[i].pc = "done"
    /\ req' = [req EXCEPT ![i] = IdleRequest]
    /\ UNCHANGED <<MOCK_CACHE, tokenCache, now, useLive, env, fixtureFile, queryVars, viewVars, googleVars>>

\* time passes
Tick ==
    /\ now < MaxTicks * TickMs
    /\ now' = now + TickMs
    /\ UNCHANGED <<MOCK_CACHE, tokenCache, req, useLive, env, fixtureFile, queryVars, viewVars, googleVars>>

Next ==
    \/ \E i \in Requests, p \in LiveQueries : GetStart(i, p)
    \/ \E i \in Requests, f \in TokenFaults : TokenFails(i, f)
    \/ \E i \in Requests, tok \in 1..MaxTokens, e \in ExpiresIns :
          TokenArrives(i, tok, e)
    \/ \E i \in Requests, f \in ReviewsFaults : ReviewsFail(i, f)
    \/ \E i \in Requests, data \in ReviewsBodies : ReviewsArrive(i, data)
    \/ \E i \in Requests : Deliver(i)
    \/ Tick

Spec == Init /\ [][Next]_vars

\* the route on a deployment whose fixture file is missing or is not JSON
FInit ==
    /\ env \in Envs
    /\ useLive = USE_LIVE(env.ACCOUNT_ID, env.API_KEY)
    /\ MOCK_CACHE = None
    /\ fixtureFile \in {"missing", "not-json"}
    /\ tokenCache = None
    /\ now = 0
    /\ req = [i \in Requests |-> IdleRequest]
    /\ QueryIdle
    /\ ViewIdle
    /\ GoogleIdle

SpecFixture == FInit /\ [][Next]_vars

-----------------------------------------------------------------------------
(* SpecQuery: the handler's query pipeline on a loaded collection *)

\* the rows and the source the try/catch block can leave: a non-empty live
\* page, or a copy of the fixture
QInit ==
    /\ \/ qRows \in LivePages /\ qSource = "live"
       \/ qRows = MockReviews
            /\ qSource \in {"mock", "live-empty-fallback", "live-error-fallback"}
    /\ qParams = None
    /\ qResp = None
    /\ page = NoPage
    /\ LiveIdle
    /\ ViewIdle
    /\ GoogleIdle

\* one GET request with query p on the loaded rows
QueryGET(p) ==
    /\ qResp = None
    /\ qParams' = Some(p)
    /\ qResp' = Some(RespondTo(qRows, qSource, p))
    /\ UNCHANGED <<qRows, qSource, page, liveVars, viewVars, googleVars>>

\* the client is done with the response; the next request may come
QueryDone ==
    /\ qResp # None
    /\ qParams' = None
    /\ qResp' = None
    /\ UNCHANGED <<qRows, qSource, page, liveVars, viewVars, googleVars>>

QNext == (\E p \in Queries : QueryGET(p)) \/ QueryDone

SpecQuery == QInit /\ [][QNext]_vars

-----------------------------------------------------------------------------
(* SpecPublic: dashboard tabs and the public reviews page of one browser,  *)
(* served by the route from one loaded collection                          *)

\* the rows and the source GET loads: the fixture without credentials, or
\* what the try/catch block leaves for a body of the reviews endpoint
PublicCollections ==
    {[rows |-> MockReviews, source |-> "mock"]}
        \cup {LoadLive(data, RandomId, MockReviews) : data \in ReviewsBodies}

Slugs == {Studio, Loft}

PInit ==
    /\ \E c \in PublicCollections : qRows = c.rows /\ qSource = c.source
    /\ qParams = None
    /\ qResp = None
    /\ page = NoPage
    /\ LiveIdle
    /\ ViewIdle
    /\ GoogleIdle

\* a tab opens the dashboard: useApprovals reads the stored map, its effect
\* stores the map it holds, and the reviews are requested
DashboardOpen(t) ==
    /\ dash[t].pc = "closed"
    /\ dash' = [dash EXCEPT ![t] =
                  [pc |-> "fetching", reviews |-> <<>>, map |-> ReadApprovals]]
    /\ localStorage' = Some(ReadApprovals)
    /\ UNCHANGED <<pub, liveVars, queryVars, googleVars>>

\* the response arrives: setReviews(d.result)
DashboardFetched(t) ==
    /\ dash[t].pc = "fetching"
    /\ dash' = [dash EXCEPT ![t].pc = "listed",
                   ![t].reviews = ResultOf(RespondTo(qRows, qSource, DashboardQuery))]
    /\ UNCHANGED <<localStorage, pub, liveVars, queryVars, googleVars>>

\* the checkbox of the i-th listed row is clicked: toggle(r.id), and the
\* effect stores the map
DashboardToggle(t, i) ==
    /\ dash[t].pc = "listed"
    /\ i \in DOMAIN dash[t].reviews
    /\ LET m == toggle(dash[t].map, dash[t].reviews[i].id)
       IN  /\ dash' = [dash EXCEPT ![t].map = m]
           /\ localStorage' = Some(m)
    /\ UNCHANGED <<pub, liveVars, queryVars, googleVars>>

DashboardClose(t) ==
    /\ dash[t].pc = "listed"
    /\ dash' = [dash EXCEPT ![t] = ClosedDashboard]
    /\ UNCHANGED <<localStorage, pub, liveVars, queryVars, googleVars>>

\* the public page of a property is opened: the effect requests the reviews
\* of the listing and reads the stored approvals
PublicOpen(slug) ==
    /\ pub.pc = "closed"
    /\ pub' = [pc |-> "fetching", slug |-> slug, reviews |-> <<>>,
               approvals |-> ReadApprovals]
    /\ UNCHANGED <<localStorage, dash, liveVars, queryVars, googleVars>>

\* the response arrives: setReviews(d.result)
PublicFetched ==
    /\ pub.pc = "fetching"
    /\ pub' = [pub EXCEPT !.pc = "loaded",
                 !.reviews = ResultOf(RespondTo(qRows, qSource, PublicQuery(pub.slug)))]
    /\ UNCHANGED <<localStorage, dash, liveVars, queryVars, googleVars>>

PublicClose ==
    /\ pub.pc = "loaded"
    /\ pub' = ClosedPage
    /\ UNCHANGED <<localStorage, dash, liveVars, queryVars, googleVars>>

PNext ==
    \/ \E t \in Tabs : DashboardOpen(t)
    \/ \E t \in Tabs : DashboardFetched(t)
    \/ \E t \in Tabs, i \in 1..MaxRows : DashboardToggle(t, i)
    \/ \E t \in Tabs : DashboardClose(t)
    \/ \E slug \in Slugs : PublicOpen(slug)
    \/ PublicFetched
    \/ PublicClose

SpecPublic == PInit /\ [][PNext]_vars

-----------------------------------------------------------------------------
(* SpecLoad: one body of the reviews endpoint, normalised and served by     *)
(* the live path of GET                                                     *)

\* upstream records: a second record with the id of RawDraft
RawTwin ==
    [RawEmpty EXCEPT
        !.id = Some(NumId(11)), !.listingName = Some(Loft), !.guestName = Some(Leo),
        !.publicReview = Some(TextClean), !.rating = Some(8),
        !.submittedAt = Some(TS("space", 1, 0)), !.approved = Some(TRUE)]
\* ratings above the scale, overall and in a category
RawHigh ==
    [RawEmpty EXCEPT
        !.id = Some(NumId(14)), !.listingName = Some(Studio), !.rating = Some(15),
        !.reviewCategory = Some(<< [category |-> Some(Value), rating |-> Some(15)] >>),
        !.submittedAt = Some(TS("space", 3, 0)), !.status = Some(Published)]
\* no submittedAt and no other date; no id
RawNoDate ==
    [RawEmpty EXCEPT !.listingName = Some(Studio), !.text = Some(TextNoisy)]
\* a submittedAt shorter than 10 characters that names no date
RawShortDate ==
    [RawEmpty EXCEPT
        !.id = Some(NumId(15)), !.listingName = Some(Loft),
        !.submittedAt = Some(Junk), !.visibility = Some(<<"h","i","d","d","e","n">>)]
\* a submittedAt in the Hostaway form beside an unreadable createdAt
RawBadIso ==
    [RawEmpty EXCEPT
        !.id = Some(NumId(16)), !.listingName = Some(Studio),
        !.submittedAt = Some(TS("space", 2, 100)), !.createdAt = Some(Junk)]

\* an empty submittedAt and no other date; no channel and no type
RawEmptyDate ==
    [RawEmpty EXCEPT
        !.id = Some(NumId(17)), !.listingName = Some(Loft),
        !.submittedAt = Some(TS("empty", 0, 0))]

\* the entries a page is made of; None is a null entry
LoadPool ==
    { Some(RawDraft), Some(RawGoogle), Some(RawUpper), Some(RawBadDate), None,
      Some(RawEmptyDate),
      Some(RawTwin), Some(RawHigh), Some(RawNoDate), Some(RawShortDate), Some(RawBadIso) }

MaxPage == 3

RawPages ==
    UNION {[1..n -> LoadPool] : n \in 0..MaxPage}

\* the queries sent to the loaded page
LoadQueries ==
    { NoQuery,
      [NoQuery EXCEPT !.sort = Some(DateWord), !.order = Some(AscWord)],
      [NoQuery EXCEPT !.approvedOnly = Some(TrueWord), !.order = Some(AscWord)],
      [NoQuery EXCEPT !.channel = Some(<<"H","O","S","T","A","W","A","Y">>),
                      !.type = Some(GuestToHost), !.order = Some(AscWord)] }

LInit ==
    /\ page \in {[shape |-> "result", items |-> items] : items \in RawPages}
    /\ qRows = <<>>
    /\ qSource = "mock"
    /\ qParams = None
    /\ qResp = None
    /\ LiveIdle
    /\ ViewIdle
    /\ GoogleIdle

\* GET with credentials, from the reviews response to the answer
LiveGET(p) ==
    /\ qResp = None
    /\ LET loaded == LoadLive(page, RandomId, MockReviews)
       IN  /\ qRows' = loaded.rows
           /\ qSource' = loaded.source
           /\ qResp' = Some(RespondTo(loaded.rows, loaded.source, p))
    /\ qParams' = Some(p)
    /\ UNCHANGED <<page, liveVars, viewVars, googleVars>>

LNext == (\E p \in LoadQueries : LiveGET(p)) \/ QueryDone

SpecLoad == LInit /\ [][LNext]_vars

-----------------------------------------------------------------------------
(* The Google route GET /api/reviews/google (real mode).  A PlaceReview is *)
(* a record of optional properties; its rating is absent, a JSON number    *)
(* given in hundredths (450 is 4.5), or a JSON value that is no number.    *)
(* publishTime is copied as text and never parsed by this route.           *)

MaxGoogleReviews == 6

GoogleWord == <<"G","o","o","g","l","e">>
GoogleUser == <<"G","o","o","g","l","e"," ","u","s","e","r">>
Bar == <<"|">>

NumberRating(h) == [isNumber |-> TRUE, hundredths |-> h]
TextRating == [isNumber |-> FALSE, hundredths |-> 0]

\* rev.rating * 2 cut to its integer part
Math_round_x2_Truncating(h) == (2 * h) \div 100
\* Math.round(rev.rating * 2) for a rating of h hundredths: the integer
\* nearest to 2h/100, a half going up
Math_round_x2(h) == (2 * h + 50) \div 100

\* typeof rev.rating === 'number' ? Math.round(rev.rating * 2) : null
GoogleRating(r) ==
    IF r # None /\ Val(r).isNumber THEN Some(Math_round_x2(Val(r).hundredths)) ELSE None

\* stableKey: rev.name || `${publishTime ?? ''}|${displayName ?? ''}|${text ?? ''}`
stableKey(rev) ==
    IF Truthy(rev.name) THEN Val(rev.name)
    ELSE Val(Coalesce(rev.publishTime, Some(<<>>))) \o Bar
            \o Val(Coalesce(rev.author, Some(<<>>))) \o Bar
            \o Val(Coalesce(rev.text, Some(<<>>)))

\* 900000 + (hashToInt(stableKey) % 100000): a number that is a function of
\* the key alone; it is kept as the key it is computed from (two keys may
\* share a number, which nothing below relies on)
hashToInt(key) == [hashOf |-> key]

\* the element reviews.map builds for one PlaceReview
normalizeGoogle(rev, placeName, placeUri) ==
    [ id |-> hashToInt(stableKey(rev)),
      type |-> GuestToHost, status |-> Published,
      rating |-> GoogleRating(rev.rating),
      publicReview |-> Val(Coalesce(rev.text, Some(<<>>))),
      reviewCategory |-> <<>>,
      submittedAt |-> Val(Coalesce(rev.publishTime, Some(<<>>))),
      guestName |-> IF Truthy(rev.author) THEN Val(rev.author) ELSE GoogleUser,
      listingName |-> placeName,
      channel |-> GoogleWord,
      sourceUrl |-> IF Truthy(rev.googleMapsUri) THEN rev.googleMapsUri ELSE placeUri ]

\* data.reviews ?? [] without the slice
FirstFive_All(reviews) == IF reviews = None THEN <<>> ELSE Val(reviews)
\* (data.reviews ?? []).slice(0, 5)
FirstFive(reviews) ==
    IF reviews = None THEN <<>>
    ELSE SubSeq(Val(reviews), 1, IF Len(Val(reviews)) < 5 THEN Len(Val(reviews)) ELSE 5)

\* the body of GET from res.json() on
normalizePlace(data, listing) ==
    LET placeName == IF data.displayName # None /\ Truthy(Val(data.displayName).text)
                     THEN Val(Val(data.displayName).text) ELSE listing
        reviews == FirstFive(data.reviews)
    IN  [i \in DOMAIN reviews |-> normalizeGoogle(reviews[i], placeName, data.googleMapsUri)]

\* NextResponse.json({status: 'success', result})
GoogleJson(result) == [http |-> 200, body |-> [status |-> "success", result |-> result]]
\* what the framework answers when the handler throws
Http500 == [http |-> 500, body |-> None]

\* await fetch(...) rejects: nothing in the handler catches it
FetchRejected == Http500

\* provider data of the model
PlaceReviewEmpty ==
    [name |-> None, text |-> None, rating |-> None, publishTime |-> None,
     googleMapsUri |-> None, author |-> None]
RevNamed ==
    [PlaceReviewEmpty EXCEPT !.name = Some(<<"r","1">>), !.text = Some(TextClean),
        !.rating = Some(NumberRating(450)), !.author = Some(Amara),
        !.publishTime = Some(<<"2","0","2","4">>),
        !.googleMapsUri = Some(<<"u","1">>)]
RevQuarter ==
    [PlaceReviewEmpty EXCEPT !.text = Some(TextNoisy), !.rating = Some(NumberRating(225)),
        !.publishTime = Some(<<"2","0","2","3">>)]
RevTextRating ==
    [PlaceReviewEmpty EXCEPT !.name = Some(<<"r","3">>), !.rating = Some(TextRating),
        !.author = Some(Leo)]
RevBare == [PlaceReviewEmpty EXCEPT !.rating = Some(NumberRating(500))]
PlaceReviews == {RevNamed, RevQuarter, RevTextRating, RevBare}

PlaceDetails ==
    { [displayName |-> dn, googleMapsUri |-> Some(<<"m">>), reviews |-> rv] :
        dn \in {None, Some([text |-> Some(<<"F","l","e","x">>)])},
        rv \in {None} \cup
               {Some(s) : s \in UNION {[1..n -> PlaceReviews] : n \in 0..MaxGoogleReviews}} }

\* data/google-places.json: absent (or unreadable), or a map
PlacesFiles == {None, Some([k \in {Studio} |-> <<"p","1">>])}
GoogleListings == {<<>>, Studio, Loft}
GooglePlaceIds == {<<>>, <<"p","9">>}
GoogleKeys == {None, Some(<<>>), Some(<<"k">>)}

\* GET up to the fetch: the place id is the parameter or, without it, the
\* entry of the listing in the mapping file; without a key or a place id the
\* answer is the empty result
GoogleGET(listing, explicitPlaceId, file) ==
    /\ greq.pc = "idle"
    /\ LET mapped == IF file = None THEN <<>>
                     ELSE Val(Coalesce(Lookup(Val(file), listing), Some(<<>>)))
           placeId == IF explicitPlaceId # <<>> THEN explicitPlaceId
                      ELSE IF listing # <<>> THEN mapped ELSE <<>>
       IN  IF ~Truthy(gKey) \/ placeId = <<>>
           THEN greq' = [IdleGoogle EXCEPT !.pc = "done", !.listing = listing,
                            !.placeId = placeId, !.resp = Some(GoogleJson(<<>>))]
           ELSE greq' = [IdleGoogle EXCEPT !.pc = "fetch", !.listing = listing,
                            !.placeId = placeId]
    /\ UNCHANGED <<gKey, liveVars, queryVars, viewVars>>

\* the request to the provider fails (no connection, DNS, timeout)
GoogleFetchRejects ==
    /\ greq.pc = "fetch"
    /\ greq' = [greq EXCEPT !.pc = "done", !.fault = "rejected",
                                 !.resp = Some(FetchRejected)]
    /\ UNCHANGED <<gKey, liveVars, queryVars, viewVars>>

\* if (!res.ok)
GoogleNotOk ==
    /\ greq.pc = "fetch"
    /\ greq' = [greq EXCEPT !.pc = "done", !.fault = "not-ok",
                                 !.resp = Some(GoogleJson(<<>>))]
    /\ UNCHANGED <<gKey, liveVars, queryVars, viewVars>>

\* res.ok with a body that is not JSON: res.json() throws
GoogleBodyUnreadable ==
    /\ greq.pc = "fetch"
    /\ greq' = [greq EXCEPT !.pc = "done", !.fault = "body",
                                 !.resp = Some(Http500)]
    /\ UNCHANGED <<gKey, liveVars, queryVars, viewVars>>

\* res.ok with place details
GoogleArrives(data) ==
    /\ greq.pc = "fetch"
    /\ greq' = [greq EXCEPT !.pc = "done", !.data = Some(data),
                   !.resp = Some(GoogleJson(normalizePlace(data, greq.listing)))]
    /\ UNCHANGED <<gKey, liveVars, queryVars, viewVars>>

\* the client has the response
GoogleDone ==
    /\ greq.pc = "done"
    /\ greq' = IdleGoogle
    /\ UNCHANGED <<gKey, liveVars, queryVars, viewVars>>

GInit ==
    /\ gKey \in GoogleKeys
    /\ greq = IdleGoogle
    /\ LiveIdle
    /\ QueryIdle
    /\ ViewIdle

GNext ==
    \/ \E l \in GoogleListings, pid \in GooglePlaceIds, f \in PlacesFiles : GoogleGET(l, pid, f)
    \/ GoogleFetchRejects
    \/ GoogleNotOk
    \/ GoogleBodyUnreadable
    \/ \E data \in PlaceDetails : GoogleArrives(data)
    \/ GoogleDone

SpecGoogle == GInit /\ [][GNext]_vars

-----------------------------------------------------------------------------
(* Properties of the query pipeline (SpecQuery) *)

\* ---- the dashboard whose checkbox shows the effective approval ----

\* set of useApprovals: m => ({ ...m, [id]: v })
setApproval(m, id, v) ==
    LET key == PropertyKey(id)
    IN  [k \in DOMAIN m \cup {key} |-> IF k = key THEN v ELSE m[k]]

\* isApproved of the dashboard: (r.approved === true) || !!map[r.id]
isApproved(r, map) ==
    \/ r.approved = Some(TRUE)
    \/ Lookup(map, PropertyKey(r.id)) = Some(TRUE)

\* the checkbox of the i-th listed row is clicked:
\* setApproval(r.id, !isApproved(r)), and the effect stores the map
DashboardSetApproval(t, i) ==
    /\ dash[t].pc = "listed"
    /\ i \in DOMAIN dash[t].reviews
    /\ LET r == dash[t].reviews[i]
           m == setApproval(dash[t].map, r.id, ~isApproved(r, dash[t].map))
       IN  /\ dash' = [dash EXCEPT ![t].map = m]
           /\ localStorage' = Some(m)
    /\ UNCHANGED <<pub, liveVars, queryVars, googleVars>>

MNext ==
    \/ \E t \in Tabs : DashboardOpen(t)
    \/ \E t \in Tabs : DashboardFetched(t)
    \/ \E t \in Tabs, i \in 1..MaxRows : DashboardSetApproval(t, i)
    \/ \E t \in Tabs : DashboardClose(t)
    \/ \E slug \in Slugs : PublicOpen(slug)
    \/ PublicFetched
    \/ PublicClose

SpecModerate == PInit /\ [][MNext]_vars

\* ---- two dashboard sessions on one browser store ----

MaxSessions == 2

Sessions == 1..MaxSessions

\* the rows of the list whose checkboxes the sessions click
MaxClickedRows == 2

\* the browser with the sessions' tabs not yet opened; the reviews are the
\* fixture's
SInit ==
    /\ qRows = MockReviews
    /\ qSource = "mock"
    /\ qParams = None
    /\ qResp = None
    /\ page = NoPage
    /\ LiveIdle
    /\ localStorage = None
    /\ dash = [s \in Sessions |-> ClosedDashboard]
    /\ pub = ClosedPage
    /\ GoogleIdle

SNext ==
    \/ \E s \in Sessions : DashboardOpen(s)
    \/ \E s \in Sessions : DashboardFetched(s)
    \/ \E s \in Sessions, i \in 1..MaxClickedRows : DashboardToggle(s, i)
    \/ \E s \in Sessions : DashboardClose(s)
    \/ \E slug \in Slugs : PublicOpen(slug)
    \/ PublicFetched
    \/ PublicClose

SpecSessions == SInit /\ [][SNext]_vars

Answered == qResp # None
TheQuery == Val(qParams)
TheResult == Val(qResp).body.result
\* the loaded collection as the filters see it
Defaulted == ApplyDefaults(qRows)

\* the place of a row in the collection (rows of a collection differ)
IndexIn(rows, r) == CHOOSE i \in DOMAIN rows : rows[i] = r

\* a row passes one filter iff the filter keeps it when it is alone
PassesListing(r, p) == FilterListing(<<r>>, p) = <<r>>
PassesQ(r, p) == FilterQ(<<r>>, p) = <<r>>
PassesType(r, p) == FilterType(<<r>>, p) = <<r>>
PassesChannel(r, p) == FilterChannel(<<r>>, p) = <<r>>
PassesCategory(r, p) == FilterCategory(<<r>>, p) = <<r>>
PassesApproved(r, p) == FilterApproved(<<r>>, p) = <<r>>
PassesDate(r, p) == FilterDate(<<r>>, p) = <<r>>

PassesAll(r, p) ==
    /\ PassesListing(r, p) /\ PassesQ(r, p) /\ PassesType(r, p) /\ PassesChannel(r, p)
    /\ PassesCategory(r, p) /\ PassesApproved(r, p) /\ PassesDate(r, p)

Matching(rows, p) == {i \in DOMAIN rows : PassesAll(rows[i], p)}

\* C2: the filters are combined with AND: the rows returned are exactly the
\* rows of the loaded collection that pass every supplied filter, each once,
\* and applying the filters in the opposite order returns the same rows.
C2_FiltersConjoin ==
    Answered =>
        /\ \A r \in Range(TheResult) : r \in Range(Defaulted) /\ PassesAll(r, TheQuery)
        /\ \A i \in Matching(Defaulted, TheQuery) : Defaulted[i] \in Range(TheResult)
        /\ Len(TheResult) = Cardinality(Matching(Defaulted, TheQuery))
        /\ TheResult =
             ApplySort(
               FilterListing(FilterQ(FilterType(FilterChannel(FilterCategory(
                 FilterApproved(FilterDate(Defaulted, TheQuery), TheQuery),
                 TheQuery), TheQuery), TheQuery), TheQuery), TheQuery),
               TheQuery)

\* listing and category/min are supplied, each of them keeps a row the
\* other rejects, and some row passes both
C2_Witness ==
    /\ Answered
    /\ Truthy(TheQuery.listing) /\ Truthy(TheQuery.category) /\ Truthy(TheQuery.min)
    /\ TheResult # <<>>
    /\ \E r \in Range(Defaulted) :
          PassesListing(r, TheQuery) /\ ~PassesCategory(r, TheQuery)
    /\ \E r \in Range(Defaulted) :
          ~PassesListing(r, TheQuery) /\ PassesCategory(r, TheQuery)

\* C3 as stated: only records whose status is "published" are returned.
C3_OnlyPublished ==
    Answered => \A r \in Range(TheResult) : r.status = Some(Published)

\* C3 amended: the handler filters on no status; a record that is not
\* published is returned exactly when it passes the supplied filters, and the
\* loaded collection keeps it.  Only the fixture holds published rows alone.
C3_StatusNotFiltered ==
    Answered =>
        /\ \A i \in DOMAIN Defaulted :
              Defaulted[i].status # Some(Published) =>
                 (Defaulted[i] \in Range(TheResult) <=> PassesAll(Defaulted[i], TheQuery))
        /\ \A i \in DOMAIN Defaulted : Defaulted[i].status = qRows[i].status
        /\ qSource # "live" => \A r \in Range(TheResult) : r.status = Some(Published)

\* a draft is returned by a query without filters
C3_Witness ==
    /\ Answered
    /\ TheQuery = NoQuery
    /\ \E r \in Range(TheResult) : r.status = Some(Draft)

\* limit as the paginated engine of the claim reads it: default 25, clamped to 1..100
ClaimedLimit(p) ==
    LET n == parseNumber(p.limit)
    IN  IF n = None THEN 25 ELSE IF Val(n) < 1 THEN 1 ELSE IF Val(n) > 100 THEN 100 ELSE Val(n)

\* C4 as stated: the response carries total, page and limit, total counts the
\* rows matching all filters, and at most limit items are returned.
C4_PaginationEnvelope ==
    Answered =>
        /\ {"total", "page", "limit"} \subseteq DOMAIN Val(qResp).body
        /\ Val(qResp).body.total = Cardinality(Matching(Defaulted, TheQuery))
        /\ Len(TheResult) <= ClaimedLimit(TheQuery)

\* C4 amended: the response carries status and result only; page and limit
\* are not read, so for every value of them result holds every row that
\* matches all filters (nothing is sliced off) and its length is that count.
C4_NoPagination ==
    Answered =>
        /\ DOMAIN Val(qResp).body = {"status", "result"}
        /\ Len(TheResult) = Cardinality(Matching(Defaulted, TheQuery))
        /\ Val(qResp) = RespondTo(qRows, qSource,
                                  [TheQuery EXCEPT !.page = None, !.limit = None])

\* limit=1 is sent and more than one row comes back
C4_Witness ==
    /\ Answered
    /\ TheQuery.limit = Some(<<"1">>) /\ TheQuery.page = Some(<<"2">>)
    /\ Len(TheResult) >= 2

\* two rows have the same key under the sort the query asks for
SortsByDate == SortKey(TheQuery) = DateWord
SortsByRating == SortKey(TheQuery) = RatingWord
SameKey(a, b) ==
    IF SortsByDate THEN toEpochMs(a) = toEpochMs(b) ELSE a.rating = b.rating

\* rows with equal keys come out in collection order
TiesInOrder ==
    \A i, j \in DOMAIN TheResult :
        (i < j /\ SameKey(TheResult[i], TheResult[j]))
            => IndexIn(Defaulted, TheResult[i]) < IndexIn(Defaulted, TheResult[j])
\* rows with equal keys come out in reversed collection order
TiesReversed ==
    \A i, j \in DOMAIN TheResult :
        (i < j /\ SameKey(TheResult[i], TheResult[j]))
            => IndexIn(Defaulted, TheResult[i]) > IndexIn(Defaulted, TheResult[j])

\* C5 as stated: for sort=date and sort=rating, with order=asc and with
\* order=desc, rows with equal sort keys keep their collection order.
C5_StableTies ==
    (Answered /\ (SortsByDate \/ SortsByRating)
              /\ SortOrder(TheQuery) \in {AscWord, DescWord}) => TiesInOrder

\* C5 amended: with order=asc rows with equal sort keys keep their collection
\* order; with order=desc (also when order is absent) the sorted rows are
\* reversed as a whole, so rows with equal keys come out in reversed
\* collection order.
C5_TiesFollowOrder ==
    (Answered /\ (SortsByDate \/ SortsByRating)) =>
        IF SortOrder(TheQuery) = DescWord THEN TiesReversed ELSE TiesInOrder

\* a descending sort returned two rows with equal keys
C5_Witness ==
    /\ Answered /\ (SortsByDate \/ SortsByRating)
    /\ SortOrder(TheQuery) = DescWord
    /\ \E i, j \in DOMAIN TheResult : i < j /\ SameKey(TheResult[i], TheResult[j])

Ratings(rows) == [i \in DOMAIN rows |-> rows[i].rating]

\* C6 as stated: null is the lowest rating: ascending, every null-rated row
\* precedes every rated row; descending, the rated rows come in
\* non-increasing order and the null-rated rows after them.
C6_NullsLowest ==
    (Answered /\ SortsByRating) =>
        \A i, j \in DOMAIN TheResult :
            i < j =>
                IF SortOrder(TheQuery) = DescWord
                THEN /\ TheResult[i].rating = None => TheResult[j].rating = None
                     /\ (TheResult[i].rating # None /\ TheResult[j].rating # None)
                            => Val(TheResult[i].rating) >= Val(TheResult[j].rating)
                ELSE TheResult[j].rating = None => TheResult[i].rating = None

\* C6 amended: null is the highest rating: ascending, the rated rows come in
\* non-decreasing order and the null-rated rows after them; descending, the
\* null-rated rows come first and the rated rows in non-increasing order
\* after them (9, null, 5 come out as null, 9, 5).
C6_NullsHighest ==
    (Answered /\ SortsByRating) =>
        \A i, j \in DOMAIN TheResult :
            i < j =>
                IF SortOrder(TheQuery) = DescWord
                THEN /\ TheResult[j].rating = None => TheResult[i].rating = None
                     /\ (TheResult[i].rating # None /\ TheResult[j].rating # None)
                            => Val(TheResult[i].rating) >= Val(TheResult[j].rating)
                ELSE /\ TheResult[i].rating = None => TheResult[j].rating = None
                     /\ (TheResult[i].rating # None /\ TheResult[j].rating # None)
                            => Val(TheResult[i].rating) <= Val(TheResult[j].rating)

\* ratings 9, null, 5 sorted by rating, descending
C6_Witness ==
    /\ Answered /\ SortsByRating /\ SortOrder(TheQuery) = DescWord
    /\ Ratings(qRows) = <<Some(9), None, Some(5)>>
    /\ Ratings(TheResult) = <<None, Some(9), Some(5)>>

\* from or to is absent or a date "YYYY-MM-DD"
DateOrAbsent(x) == x = None \/ Val(x).fmt = "date"

\* t lies between 00:00:00 of the from date and 23:59:59 of the to date
InWholeDays(r, p) ==
    LET t == toEpochMs(r)
    IN  /\ p.from # None => t >= Val(p.from).day * SecPerDay * 1000
        /\ p.to # None => t <= (Val(p.to).day * SecPerDay + EndOfDaySec) * 1000

PassesAllButDate(r, p) == PassesAll(r, [p EXCEPT !.from = None, !.to = None])

\* C7: the date range is inclusive of whole days: with from=D1 and to=D2 a row
\* (that passes the other filters) is returned iff its epoch milliseconds t
\* satisfy D1 00:00:00 <= t <= D2 23:59:59.
C7_WholeDayRange ==
    (Answered /\ DateOrAbsent(TheQuery.from) /\ DateOrAbsent(TheQuery.to)) =>
        \A r \in Range(Defaulted) :
            PassesAllButDate(r, TheQuery) =>
                (r \in Range(TheResult) <=> InWholeDays(r, TheQuery))

\* some entry of the row has the category and a rating that will do
SomeEntryHits(r, category, min) ==
    \E k \in DOMAIN r.reviewCategory :
        /\ r.reviewCategory[k].category = category
        /\ r.reviewCategory[k].rating # None
        /\ min # None => Val(r.reviewCategory[k].rating) >= Val(min)

PassesAllButCategory(r, p) == PassesAll(r, [p EXCEPT !.category = None])

\* C8: with category (and min) a row (that passes the other filters) is
\* returned iff at least one of its category entries, at any position, has
\* that name and a rating >= min, or a non-null rating when min is omitted.
C8_AnyEntryCounts ==
    (Answered /\ Truthy(TheQuery.category)) =>
        \A r \in Range(Defaulted) :
            PassesAllButCategory(r, TheQuery) =>
                (r \in Range(TheResult)
                    <=> SomeEntryHits(r, Val(TheQuery.category), parseNumber(TheQuery.min)))

\* a min that is empty or that Number() does not read as a finite number
BadMin(x) == x # None /\ (Val(x) = <<>> \/ ~NumberOfString(Val(x)).fin)
\* a from or to that is empty or that Date.parse does not read
BadDate(x) == x # None /\ (Val(x).fmt = "empty" \/ ~DateParse(Val(x)).fin)

-----------------------------------------------------------------------------
(* Properties of the route as a whole (Spec) *)

Failed(i) == req[i].pc = "done" /\ req[i].fault # "none"

\* C1: with credentials configured, whatever fails on the live path (the
\* token request or the reviews request rejected or not ok, a body that
\* cannot be parsed, normalisation throwing), the response is a success whose
\* rows are computed from the fixture, and x-source marks the fallback.
C1_FailSoft ==
    \A i \in Requests :
        Failed(i) =>
            /\ useLive
            /\ Val(req[i].resp).body.status = "success"
            /\ Val(req[i].resp).body.result
                  = ApplySort(ApplyFilters(ApplyDefaults(MockReviews), req[i].p), req[i].p)
            /\ Val(req[i].resp).xSource = "live-error-fallback"
            /\ Val(req[i].resp).xSource # "live"

\* one request has failed at the token endpoint and another in normalisation,
\* and both have been answered with rows of the fixture
C1_Witness ==
    /\ Failed(1) /\ req[1].fault \in TokenFaults
    /\ Failed(2) /\ req[2].fault = "normalize-throws"
    /\ Val(req[1].resp).body.result # <<>>
    /\ Val(req[2].resp).body.result # <<>>


-----------------------------------------------------------------------------
(* Properties of the public reviews page (SpecPublic) *)

Loaded == pub.pc = "loaded"
\* the reviews the page renders
Shown == approved(pub.reviews, pub.approvals)
IsShown(r) == \E i \in DOMAIN Shown : Shown[i] = r
\* approvalMap[id] == true, the map being the one the dashboard keeps
LocallyApproved(r) == Lookup(pub.approvals, PropertyKey(r.id)) = Some(TRUE)
ServerApproved(r) == r.approved = Some(TRUE)

\* C10: the public reviews page shows a fetched review exactly when the
\* record is approved or the local approval map has true for its id
C10_ApprovalUnion ==
    Loaded => \A i \in DOMAIN pub.reviews :
        IsShown(pub.reviews[i])
            <=> (ServerApproved(pub.reviews[i]) \/ LocallyApproved(pub.reviews[i]))

\* the state C10 fails in: a fetched review the dashboard has approved under
\* its text id, which the server has not approved, is not shown
C10_TextIdHidden ==
    /\ Loaded
    /\ \E i \in DOMAIN pub.reviews :
          /\ ~pub.reviews[i].id.num
          /\ LocallyApproved(pub.reviews[i])
          /\ ~ServerApproved(pub.reviews[i])
          /\ ~IsShown(pub.reviews[i])

\* the union as far as it holds: for reviews whose id is a JSON number
C10_UnionForNumericIds ==
    Loaded => \A i \in DOMAIN pub.reviews :
        pub.reviews[i].id.num =>
            (IsShown(pub.reviews[i])
                <=> (ServerApproved(pub.reviews[i]) \/ LocallyApproved(pub.reviews[i])))

\* a review with neither approval is never shown
C10_NeitherNeverShown ==
    Loaded => \A i \in DOMAIN pub.reviews :
        (~ServerApproved(pub.reviews[i]) /\ ~LocallyApproved(pub.reviews[i]))
            => ~IsShown(pub.reviews[i])

\* a numeric-id review the server has not approved is shown by its local approval
C10_NumericShownByLocal ==
    /\ Loaded
    /\ \E i \in DOMAIN pub.reviews :
          /\ pub.reviews[i].id.num
          /\ ~ServerApproved(pub.reviews[i])
          /\ LocallyApproved(pub.reviews[i])
          /\ IsShown(pub.reviews[i])

-----------------------------------------------------------------------------
(* Properties of the token cache (Spec) *)

\* steps of getHostawayToken in request i: the cached token is returned
\* without a request, a token is requested, a token response is stored
CacheHit(i) == req[i].pc = "idle" /\ req'[i].pc = "reviews"
Refresh(i) == req[i].pc = "idle" /\ req'[i].pc = "token"
Stored(i) == req[i].pc = "token" /\ req'[i].pc = "reviews"
CacheFresh == tokenCache # None /\ now < Val(tokenCache).exp
\* a live GET is called in request i
LiveCall(i) == useLive /\ req[i].pc = "idle" /\ req'[i].pc # "idle"

\* the parts of C11 that do not depend on the value of expires_in: a cached
\* token is returned only strictly before the stored expiry, and it is the
\* cached one; at or after the stored expiry, or without a cached token, a new
\* token is requested
CacheUse(i) ==
    /\ CacheHit(i) => CacheFresh /\ req'[i].token = Some(Val(tokenCache).token)
    /\ (LiveCall(i) /\ ~CacheFresh) => Refresh(i)
    /\ (LiveCall(i) /\ CacheFresh) => CacheHit(i)

\* C11 as stated: a cached token is returned without a request only strictly
\* before the stored expiry, at or after it a new token is requested, and the
\* stored expiry is never later than the start of the refresh plus
\* expires_in minus 60 s.
C11_ExpiryMargin ==
    [][\A i \in Requests :
          /\ CacheUse(i)
          /\ (Stored(i) /\ Val(req'[i].j) # None) =>
                Val(tokenCache').exp
                    <= req[i].started + (Val(Val(req'[i].j)) - 60) * 1000]_vars

\* C11 amended: the stored expiry is the start of the refresh plus
\* max(0, expires_in - 60) s, expires_in counting as 3600 when the response
\* has none: it is at most start + expires_in - 60 s when expires_in >= 60,
\* and it is the start itself, later than start + expires_in - 60 s, when
\* expires_in < 60; the cached token is returned only strictly before the
\* stored expiry, and otherwise a new token is requested.
C11_ExpiryFloor ==
    [][\A i \in Requests :
          /\ CacheUse(i)
          /\ Stored(i) =>
                LET e == Val(Coalesce(Val(req'[i].j), Some(3600)))
                    exp == Val(tokenCache').exp
                IN  /\ e >= 60 => exp = req[i].started + (e - 60) * 1000
                    /\ e < 60 => exp = req[i].started
                    /\ req'[i].token = Some(Val(tokenCache').token)]_vars

\* a response with expires_in = 30 has been stored with the start of its
\* refresh as expiry, and the next request, called at that very time, is
\* requesting a new token; a third party holds nothing from the cache
C11_Witness ==
    \E i, k \in Requests :
        /\ req[i].pc = "reviews" /\ req[i].j = Some(Some(30))
        /\ tokenCache = Some([token |-> Val(req[i].token), exp |-> now])
        /\ req[k].pc = "token" /\ req[k].started = now

\* C12: under every interleaving of the requests, tokenCache changes only by
\* being set to the token of one successful token response together with the
\* expiry computed from that same response; a request goes on to fetch the
\* reviews only with the token of its own response or with the cached one;
\* and storing a response changes nothing but tokenCache and the request
\* that stores it.
C12_CacheHoldsOneResponse ==
    [][/\ tokenCache' # tokenCache =>
             \E i \in Requests :
                /\ Stored(i)
                /\ tokenCache' = Some([token |-> Val(req'[i].token),
                                       exp |-> TokenExpiry(req[i].started, Val(req'[i].j))])
       /\ \A i \in Requests :
             /\ req'[i].pc = "reviews" => req'[i].token # None
             /\ (req'[i].pc = "reviews" /\ req[i].pc # "reviews") =>
                   \/ Stored(i) /\ req'[i].j # None
                   \/ CacheHit(i) /\ req'[i].token = Some(Val(tokenCache).token)
             /\ Stored(i) =>
                   /\ \A k \in Requests \ {i} : req'[k] = req[k]
                   /\ UNCHANGED <<MOCK_CACHE, useLive, env, now>>]_vars

\* two requests have refreshed the token side by side: each holds the token
\* of its own response, and the cache holds the pair stored last
C12_Witness ==
    \E i, k \in Requests :
        /\ req[i].pc = "reviews" /\ req[i].j # None
        /\ req[k].pc = "reviews" /\ req[k].j # None
        /\ req[i].token # req[k].token
        /\ tokenCache # None /\ Val(tokenCache).token = Val(req[k].token)
        /\ req[i].j # req[k].j

-----------------------------------------------------------------------------
(* Properties of the route without credentials (Spec) *)

Unset(x) == x = None
\* the request has passed an await of the live path, or holds a token
OnLivePath(i) == req[i].pc \in {"token", "reviews"} \/ req[i].token # None \/ req[i].j # None

\* C13: when HOSTAWAY_ACCOUNT_ID or HOSTAWAY_API_KEY is unset, no request
\* issues a token request or a reviews request and no token is cached; every
\* response has x-source "mock" and its rows are the fixture taken through
\* the defaults pass, the filters and the sort of the query, the steps the
\* live rows take.
C13_NoCredentialsMock ==
    (Unset(env.ACCOUNT_ID) \/ Unset(env.API_KEY)) =>
        /\ tokenCache = None
        /\ \A i \in Requests :
              /\ ~OnLivePath(i)
              /\ req[i].pc = "done" =>
                    /\ req[i].fault = "none"
                    /\ Val(req[i].resp).xSource = "mock"
                    /\ Val(req[i].resp).body.status = "success"
                    /\ Val(req[i].resp).body.result =
                          ApplySort(ApplyFilters(ApplyDefaults(MockReviews), req[i].p),
                                    req[i].p)
                    /\ Val(req[i].resp) = RespondTo(MockReviews, "mock", req[i].p)

\* only the API key is unset, and a request for one listing sorted by rating
\* has been answered from the fixture
C13_Witness ==
    /\ Truthy(env.ACCOUNT_ID) /\ Unset(env.API_KEY)
    /\ \E i \in Requests :
          /\ req[i].pc = "done" /\ req[i].p # NoQuery
          /\ Val(req[i].resp).xSource = "mock"
          /\ Len(Val(req[i].resp).body.result) = 2

-----------------------------------------------------------------------------
(* Properties of the normalisation of a live page (SpecLoad) *)

Items == page.items
\* the page has been normalised and served as live rows
ServedLive == qResp # None /\ qSource = "live"
\* the id of an upstream record: the first of id, reviewId, _id, uuid
UpstreamId(raw) == Coalesce(raw.id, Coalesce(raw.reviewId, Coalesce(raw.uid, raw.uuid)))
DistinctIds(rows) == \A i, k \in DOMAIN rows : i # k => rows[i].id # rows[k].id

\* C14 as stated: in the collection normalised from a live page, and in
\* every query result, no two records have the same id.
C14_UniqueIds ==
    ServedLive => DistinctIds(qRows) /\ DistinctIds(TheResult)

\* C14 amended: the normalised collection holds one record for every
\* upstream record, in upstream order, with the upstream id (a random text
\* when it has none); records that share an id upstream share it in the
\* collection, each at its own position, and in the unfiltered result.
C14_IdsCarriedThrough ==
    ServedLive =>
        /\ Len(qRows) = Len(Items)
        /\ \A i \in DOMAIN Items :
              UpstreamId(Val(Items[i])) # None
                  => qRows[i].id = Val(UpstreamId(Val(Items[i])))
        /\ \A i, k \in DOMAIN Items :
              (i # k /\ UpstreamId(Val(Items[i])) = None /\ UpstreamId(Val(Items[k])) = None)
                  => qRows[i].id # qRows[k].id
        /\ TheQuery = NoQuery =>
              \A i \in DOMAIN qRows : \E k \in DOMAIN TheResult : TheResult[k].id = qRows[i].id
                                                                   /\ TheResult[k].rating = qRows[i].rating

\* the upstream sends id 11 twice with another record between them, and the
\* unfiltered result holds both records of id 11
C14_Witness ==
    /\ ServedLive /\ TheQuery = NoQuery
    /\ Len(Items) = 3
    /\ Items[1] = Some(RawDraft) /\ Items[3] = Some(RawTwin)
    /\ Len(TheResult) = 3
    /\ Cardinality({k \in DOMAIN TheResult : TheResult[k].id = NumId(11)}) = 2

\* the first present of the ISO date properties of an upstream record
UpstreamIso(raw) ==
    Coalesce(raw.submittedAtIso, Coalesce(raw.createdAt, Coalesce(raw.date,
        Coalesce(raw.created, raw.updatedAt))))
\* malformed entries: a null entry, or a record without submittedAt whose
\* date cannot be read
Malformed(e) ==
    \/ e = None
    \/ /\ Val(e).submittedAt = None
       /\ TruthyTs(UpstreamIso(Val(e)))
       /\ Val(UpstreamIso(Val(e))).fmt = "junk"
WellFormed(e) == ~Malformed(e)
MalformedCount(items) == Cardinality({i \in DOMAIN items : Malformed(items[i])})
WellFormedCount(items) == Cardinality({i \in DOMAIN items : WellFormed(items[i])})

\* C15 as stated: when a live page holds a malformed record, its well-formed
\* records are still normalised and returned: the page is not discarded.
C15_RestSurvives ==
    (qResp # None /\ WellFormedCount(Items) > 0) =>
        /\ qSource = "live"
        /\ Len(qRows) = WellFormedCount(Items)

\* C15 amended: one malformed record fails the whole page: none of its
\* records is returned, the response is still a success, computed from the
\* fixture, with x-source live-error-fallback; a page without malformed
\* records is normalised record by record.
C15_OneBadFailsPage ==
    qResp # None =>
        /\ Val(qResp).body.status = "success"
        /\ MalformedCount(Items) > 0 =>
              /\ qSource = "live-error-fallback"
              /\ qRows = MockReviews
              /\ Val(qResp) = RespondTo(MockReviews, "live-error-fallback", TheQuery)
        /\ (MalformedCount(Items) = 0 /\ Items # <<>>) =>
              /\ qSource = "live"
              /\ Len(qRows) = Len(Items)
        /\ Items = <<>> => qSource = "live-empty-fallback" /\ qRows = MockReviews

\* a page of two well-formed records around a null entry has been answered
\* from the fixture
C15_Witness ==
    /\ qResp # None /\ TheQuery = NoQuery
    /\ Items = <<Some(RawGoogle), None, Some(RawUpper)>>
    /\ qSource = "live-error-fallback"
    /\ Len(TheResult) = Len(MockReviews)

\* the length test of submittedAt: the forms that name a date have 10
\* characters or more ("YYYY-MM-DD" has 10); the unreadable strings of the
\* model ("n/a") and the empty string have fewer
ShortText(t) == t.fmt \in {"junk", "empty"}
\* a record the validation of the claim would reject
InvalidRecord(e) ==
    e # None /\ (Val(e).submittedAt = None \/ ShortText(Val(Val(e).submittedAt)))
ValidCount(items) == Cardinality({i \in DOMAIN items : ~InvalidRecord(items[i])})

\* C16 as stated: of a live page of V valid and I invalid records (submittedAt
\* missing or shorter than 10 characters), the normalised output holds
\* exactly the V valid ones.
C16_InvalidDropped ==
    ServedLive =>
        /\ Len(qRows) = ValidCount(Items)
        /\ \A k \in DOMAIN qRows : ~ShortText(qRows[k].submittedAt)

\* C16 amended: no record is validated or dropped: the output holds one
\* record per upstream record; a present submittedAt is carried unchanged,
\* whatever its length, and a missing one is filled from the record's ISO
\* date or, without one, with "1970-01-01 00:00:00"; the unfiltered result
\* holds them all.
C16_InvalidKept ==
    ServedLive =>
        /\ Len(qRows) = Len(Items)
        /\ \A i \in DOMAIN Items :
              LET raw == Val(Items[i]) IN
              /\ raw.submittedAt # None => qRows[i].submittedAt = Val(raw.submittedAt)
              /\ (raw.submittedAt = None /\ ~TruthyTs(UpstreamIso(raw)))
                    => qRows[i].submittedAt = EpochSpace
              /\ (raw.submittedAt = None /\ TruthyTs(UpstreamIso(raw)))
                    => /\ qRows[i].submittedAt.fmt = "space"
                       /\ qRows[i].submittedAt.day = Val(UpstreamIso(raw)).day
        /\ TheQuery = NoQuery => Len(TheResult) = Len(Items)

\* a page of one valid record, one without submittedAt and one with a short
\* submittedAt has been served with all three
C16_Witness ==
    /\ ServedLive /\ TheQuery = NoQuery
    /\ Items = <<Some(RawGoogle), Some(RawNoDate), Some(RawShortDate)>>
    /\ ValidCount(Items) = 1
    /\ Len(TheResult) = 3
    /\ \E k \in DOMAIN TheResult : TheResult[k].submittedAt = EpochSpace
    /\ \E k \in DOMAIN TheResult : TheResult[k].submittedAt = Junk

\* a rating is null or a number of the inclusive scale 0..10
OnScale(r) == r = None \/ (Val(r) >= 0 /\ Val(r) <= 10)
RatingsOnScale(rows) ==
    \A k \in DOMAIN rows :
        /\ OnScale(rows[k].rating)
        /\ \A c \in DOMAIN rows[k].reviewCategory : OnScale(rows[k].reviewCategory[c].rating)
\* the overall rating an upstream record carries: rating, overallRating, score
UpstreamRating(raw) == Coalesce(raw.rating, Coalesce(raw.overallRating, raw.score))
\* the ratings of the upstream reviewCategory entries that have a name
UpstreamCategoryRatings(raw) ==
    IF raw.reviewCategory = None THEN <<>>
    ELSE LET named == SelectSeq(Val(raw.reviewCategory),
                                LAMBDA c : c.category # None /\ Val(c.category) # <<>>)
         IN  [i \in DOMAIN named |-> named[i].rating]

\* C17 as stated: every overall and category rating of a normalised record,
\* and of a query result, lies in 0..10 (or is null): 15 has become 10 and a
\* negative rating 0.
C17_RatingsClamped ==
    ServedLive => RatingsOnScale(qRows) /\ RatingsOnScale(TheResult)

\* C17 amended: ratings are carried through as the upstream sent them: the
\* overall rating is the first present of rating, overallRating and score,
\* a category rating is the number of the upstream entry, with no bound.
C17_RatingsCarriedThrough ==
    ServedLive =>
        \A i \in DOMAIN Items :
            LET raw == Val(Items[i]) IN
            /\ qRows[i].rating = UpstreamRating(raw)
            /\ raw.reviewCategory # None =>
                  [c \in DOMAIN qRows[i].reviewCategory |-> qRows[i].reviewCategory[c].rating]
                      = UpstreamCategoryRatings(raw)

\* a page with an overall rating of 15 and a category rating of -1 has been
\* served, and the unfiltered result shows 15 and -1
C17_Witness ==
    /\ ServedLive /\ TheQuery = NoQuery
    /\ Items = <<Some(RawHigh), Some(RawUpper)>>
    /\ \E k \in DOMAIN TheResult :
          /\ TheResult[k].rating = Some(15)
          /\ TheResult[k].reviewCategory[1].rating = Some(15)
    /\ \E k \in DOMAIN TheResult : TheResult[k].reviewCategory[1].rating = Some(0 - 1)

\* a submittedAtIso that Date.parse reads
ValidInstant(iso) == TruthyTs(iso) /\ DateParse(Val(iso)).fin
\* "1970-01-01T00:00:00Z"
EpochIso == TS("isoZ", 0, 0)
\* the raw timestamp of a record cannot be parsed: its ISO date property or,
\* without one, its submittedAt is a string that names no date
UnreadableDate(raw) ==
    IF TruthyTs(UpstreamIso(raw)) THEN Val(UpstreamIso(raw)).fmt = "junk"
    ELSE raw.submittedAt # None /\ Val(raw.submittedAt).fmt = "junk"

\* C18 as stated: every record the handler returns has a submittedAtIso that
\* parses; a record whose raw timestamp cannot be parsed is returned, with
\* the epoch instant 1970-01-01T00:00:00Z.
C18_IsoAlwaysValid ==
    qResp # None =>
        /\ \A k \in DOMAIN TheResult : ValidInstant(TheResult[k].submittedAtIso)
        /\ TheQuery = NoQuery =>
              \A i \in DOMAIN Items :
                 (Items[i] # None /\ UnreadableDate(Val(Items[i]))
                      /\ UpstreamId(Val(Items[i])) # None) =>
                    \E k \in DOMAIN TheResult :
                        /\ TheResult[k].id = Val(UpstreamId(Val(Items[i])))
                        /\ TheResult[k].submittedAtIso = Some(EpochIso)

\* C18, the part that holds: a record without any date is returned with
\* submittedAt "1970-01-01 00:00:00" and the epoch instant as submittedAtIso,
\* and the fixture's records all carry an instant that parses.
C18_MissingDateGetsEpoch ==
    qResp # None =>
        /\ (ServedLive /\ TheQuery = NoQuery) =>
              \A i \in DOMAIN Items :
                 (Val(Items[i]).submittedAt = None /\ ~TruthyTs(UpstreamIso(Val(Items[i])))) =>
                    /\ qRows[i].submittedAt = EpochSpace
                    /\ \E k \in DOMAIN TheResult :
                          /\ TheResult[k].id = qRows[i].id
                          /\ TheResult[k].submittedAtIso = Some(EpochIso)
        /\ qSource # "live" =>
              \A k \in DOMAIN TheResult : ValidInstant(TheResult[k].submittedAtIso)

\* C18, the failing case reached: a record with a submittedAt in the Hostaway
\* form beside an unreadable createdAt is returned with the unreadable
\* string as its submittedAtIso
C18_InvalidIsoReturned ==
    /\ ServedLive /\ TheQuery = NoQuery
    /\ Items = <<Some(RawBadIso)>>
    /\ TheResult[1].submittedAtIso = Some(Junk)
    /\ toEpochMs(TheResult[1]) = (2 * SecPerDay + 100) * 1000

\* the explicit approval flag of an upstream record: approved, else isApproved
ExplicitFlag(raw) == IF raw.approved # None THEN raw.approved ELSE raw.isApproved

\* C19 as stated: a normalised record is approved only if the upstream
\* record carried an explicit approval flag that is true; no other property
\* makes it approved, and without a flag approved is false.
C19_ApprovedOnlyByFlag ==
    ServedLive =>
        \A i \in DOMAIN Items :
            /\ qRows[i].approved = Some(TRUE) => ExplicitFlag(Val(Items[i])) = Some(TRUE)
            /\ ExplicitFlag(Val(Items[i])) = None => qRows[i].approved = Some(FALSE)

\* C19 amended: approved is the explicit flag when the record has one;
\* without a flag it is true when visibility is "public" and absent (not
\* false) otherwise; status and text have no part in it; approvedOnly=true
\* returns the records whose approved is true, the ones approved by
\* visibility included.
C19_ApprovedByFlagOrVisibility ==
    ServedLive =>
        /\ \A i \in DOMAIN Items :
              LET raw == Val(Items[i]) IN
              /\ ExplicitFlag(raw) # None => qRows[i].approved = ExplicitFlag(raw)
              /\ (ExplicitFlag(raw) = None /\ raw.visibility = Some(PublicWord))
                    => qRows[i].approved = Some(TRUE)
              /\ (ExplicitFlag(raw) = None /\ raw.visibility # Some(PublicWord))
                    => qRows[i].approved = None
        /\ TheQuery.approvedOnly = Some(TrueWord) =>
              Len(TheResult) = Cardinality({i \in DOMAIN Items :
                  \/ ExplicitFlag(Val(Items[i])) = Some(TRUE)
                  \/ /\ ExplicitFlag(Val(Items[i])) = None
                     /\ Val(Items[i]).visibility = Some(PublicWord)})

\* a page of a record without flag whose visibility is "public", a record
\* without flag and visibility, and a record with visibility "hidden" has
\* been queried with approvedOnly=true, and the first alone is returned
C19_Witness ==
    /\ ServedLive /\ TheQuery.approvedOnly = Some(TrueWord)
    /\ Items = <<Some(RawDraft), Some(RawNoDate), Some(RawShortDate)>>
    /\ qRows[1].approved = Some(TRUE)
    /\ qRows[2].approved = None
    /\ Len(TheResult) = 1 /\ TheResult[1].id = NumId(11)

-----------------------------------------------------------------------------
(* Properties of the sort by date (SpecQuery) *)

\* the request asked for sort=date
ByDateQuery == qResp # None /\ SortKey(TheQuery) = DateWord
\* the result of the same request on the same rows with another order
ResultWithOrder(word) ==
    RespondTo(qRows, qSource, [TheQuery EXCEPT !.order = Some(word)]).body.result
DistinctTimes(rows) ==
    \A i, k \in DOMAIN rows : i # k => toEpochMs(rows[i]) # toEpochMs(rows[k])
NonDecreasingTimes(rows) ==
    \A i, k \in DOMAIN rows : i < k => toEpochMs(rows[i]) <= toEpochMs(rows[k])
DecreasingTimes(rows) ==
    \A i, k \in DOMAIN rows : i < k => toEpochMs(rows[i]) > toEpochMs(rows[k])

\* C20: with sort=date, when the matching records have pairwise distinct
\* timestamps, the descending result is the ascending result reversed, and
\* the ascending result is in non-decreasing order of epoch milliseconds
\* (with or without distinct timestamps).
C20_SortReversal ==
    ByDateQuery =>
        /\ SortOrder(TheQuery) # DescWord =>
              /\ NonDecreasingTimes(TheResult)
              /\ DistinctTimes(TheResult) => ResultWithOrder(DescWord) = Reverse(TheResult)
        /\ SortOrder(TheQuery) = DescWord =>
              /\ NonDecreasingTimes(ResultWithOrder(AscWord))
              /\ DistinctTimes(TheResult) =>
                    /\ TheResult = Reverse(ResultWithOrder(AscWord))
                    /\ DecreasingTimes(TheResult)
                    /\ Range(TheResult) = Range(ResultWithOrder(AscWord))

\* three rows of pairwise distinct timestamps, loaded in neither order, have
\* been returned by sort=date&order=desc
C20_Witness ==
    /\ ByDateQuery /\ TheQuery.order = Some(DescWord)
    /\ Len(TheResult) = 3 /\ DistinctTimes(TheResult)
    /\ ~NonDecreasingTimes(ApplyDefaults(qRows))
    /\ ~DecreasingTimes(ApplyDefaults(qRows))
    /\ DecreasingTimes(TheResult)

-----------------------------------------------------------------------------
(* Properties of the defaults pass (SpecLoad) *)

\* the query names the channel hostaway, in any case
AsksHostaway(p) ==
    parseCsvLower(p.channel) # None
        /\ ToLowerCase(Hostaway) \in Range(Val(parseCsvLower(p.channel)))
\* the query names the type guest-to-host, in any case
AsksGuestToHost(p) ==
    parseCsvLower(p.type) # None
        /\ ToLowerCase(GuestToHost) \in Range(Val(parseCsvLower(p.type)))
\* rows without channel, and rows without type, match the default's name
AbsentMatchesDefault ==
    /\ AsksHostaway(TheQuery) =>
          \A i \in DOMAIN qRows :
             (qRows[i].channel = None
                 /\ PassesAll(Defaulted[i], [TheQuery EXCEPT !.channel = None]))
                => \E k \in DOMAIN TheResult :
                      TheResult[k].id = qRows[i].id /\ TheResult[k].channel = Some(Hostaway)
    /\ AsksGuestToHost(TheQuery) =>
          \A i \in DOMAIN qRows :
             (qRows[i].type = None
                 /\ PassesAll(Defaulted[i], [TheQuery EXCEPT !.type = None]))
                => \E k \in DOMAIN TheResult :
                      TheResult[k].id = qRows[i].id /\ TheResult[k].type = Some(GuestToHost)

\* C21 as stated: every row returned has a channel, a type, a rating that is
\* a number or null, and a submittedAtIso; a row without channel matches
\* channel=hostaway and a row without type matches type=guest-to-host.
C21_DefaultsBeforeFilters ==
    qResp # None =>
        /\ \A k \in DOMAIN TheResult :
              /\ TheResult[k].channel # None
              /\ TheResult[k].type # None
              /\ TheResult[k].rating = None \/ Val(TheResult[k].rating) \in Int
              /\ TheResult[k].submittedAtIso # None
        /\ AbsentMatchesDefault

\* C21, the part that holds: channel, type and rating are always there and
\* the defaults take part in the filters; submittedAtIso is there for every
\* row that has an ISO date or a submittedAt that is not the empty string.
C21_DefaultsButEmptyDate ==
    qResp # None =>
        /\ \A k \in DOMAIN TheResult :
              /\ TheResult[k].channel # None
              /\ TheResult[k].type # None
              /\ TheResult[k].rating = None \/ Val(TheResult[k].rating) \in Int
              /\ TheResult[k].submittedAt.fmt # "empty" => TheResult[k].submittedAtIso # None
        /\ AbsentMatchesDefault

\* C21, the failing case reached: a live record whose submittedAt is the
\* empty string is returned, for channel=HOSTAWAY and type=guest-to-host,
\* with the defaults for channel and type and without submittedAtIso
C21_RowWithoutIso ==
    /\ ServedLive /\ AsksHostaway(TheQuery) /\ AsksGuestToHost(TheQuery)
    /\ Items = <<Some(RawUpper), Some(RawEmptyDate)>>
    /\ Len(TheResult) = 1
    /\ TheResult[1].id = NumId(17)
    /\ TheResult[1].channel = Some(Hostaway) /\ TheResult[1].type = Some(GuestToHost)
    /\ TheResult[1].submittedAtIso = None

-----------------------------------------------------------------------------
(* Properties of the Google route (SpecGoogle) *)

\* the route has answered a request for which the provider sent place details
PlaceAnswered == greq.pc = "done" /\ greq.data # None
\* the reviews of the provider's response, in its order
ProviderReviews ==
    IF Val(greq.data).reviews = None THEN <<>> ELSE Val(Val(greq.data).reviews)
GoogleResult == Val(greq.resp).body.result
\* n is the integer nearest to twice a rating of h hundredths, a half going up
NearestToDouble(n, h) == 100 * n - 50 <= 2 * h /\ 2 * h < 100 * n + 50

\* C22: the adapter returns at most 5 reviews, the first 5 of the provider's
\* response in its order; a numeric rating r of the scale 0..5 becomes
\* round(2 r), an integer of 0..10, and a rating that is no number null.
C22_FirstFiveDoubled ==
    /\ \A h \in 0..500 : Math_round_x2(h) \in 0..10 /\ NearestToDouble(Math_round_x2(h), h)
    /\ PlaceAnswered =>
          /\ Val(greq.resp).http = 200 /\ Val(greq.resp).body.status = "success"
          /\ Len(GoogleResult) <= 5
          /\ Len(GoogleResult) = IF Len(ProviderReviews) < 5 THEN Len(ProviderReviews) ELSE 5
          /\ \A i \in DOMAIN GoogleResult :
                LET rev == ProviderReviews[i]
                    out == GoogleResult[i]
                IN  /\ out.publicReview = Val(Coalesce(rev.text, Some(<<>>)))
                    /\ out.submittedAt = Val(Coalesce(rev.publishTime, Some(<<>>)))
                    /\ out.id = hashToInt(stableKey(rev))
                    /\ (rev.rating # None /\ Val(rev.rating).isNumber) =>
                          /\ out.rating # None
                          /\ Val(out.rating) \in 0..10
                          /\ NearestToDouble(Val(out.rating), Val(rev.rating).hundredths)
                    /\ (rev.rating = None \/ ~Val(rev.rating).isNumber) => out.rating = None

\* the provider sent six reviews; five are returned, with 4.5 become 9, 2.25
\* become 5, a rating that is a text become null and 5 become 10
C22_Witness ==
    /\ PlaceAnswered
    /\ ProviderReviews = <<RevNamed, RevQuarter, RevTextRating, RevBare, RevNamed, RevQuarter>>
    /\ Len(GoogleResult) = 5
    /\ [i \in 1..5 |-> GoogleResult[i].rating] = <<Some(9), Some(5), None, Some(10), Some(9)>>

\* the Google route has answered
GoogleAnswered == greq.pc = "done"
NoKeyOrPlace == ~Truthy(gKey) \/ greq.placeId = <<>>
EmptySuccess == greq.resp = Some(GoogleJson(<<>>))

\* C23 as stated: without API key, without a place id, or with the provider
\* unavailable (a response that is not ok, or the request itself failing),
\* the Google route answers {status: "success", result: []}, never an error.
C23_GoogleFailSoft ==
    (GoogleAnswered /\ (NoKeyOrPlace \/ greq.fault \in {"not-ok", "rejected"}))
        => EmptySuccess

\* C23, the part that holds: without key or place id no request is sent and
\* the answer is the empty success; so it is for a response that is not ok.
C23_FailSoftButRejection ==
    /\ (greq.pc = "fetch" => ~NoKeyOrPlace)
    /\ (GoogleAnswered /\ (NoKeyOrPlace \/ greq.fault = "not-ok")) => EmptySuccess

\* C23, the failing case reached: with a key and a place id from the mapping
\* file, the request to the provider fails and the route answers HTTP 500
C23_RejectionIs500 ==
    /\ GoogleAnswered /\ greq.fault = "rejected"
    /\ Truthy(gKey) /\ greq.listing = Studio /\ greq.placeId = <<"p","1">>
    /\ Val(greq.resp).http = 500

-----------------------------------------------------------------------------
(* Properties of the route without a readable fixture (SpecFixture) *)

\* request i has been answered, and not from live rows: the handler had to
\* load the fixture, which it could not
FixtureFault(i) ==
    /\ req[i].pc = "done"
    /\ Val(req[i].resp).xSource # "live"
    /\ MOCK_CACHE = None /\ fixtureFile # "readable"

\* C24 as stated: a fault that is not a provider failure (the fixture cannot
\* be read or parsed while the fallback is served) surfaces as HTTP 500 with
\* the body {status: "error", message}.
C24_FaultEnvelope ==
    \A i \in Requests :
        FixtureFault(i) =>
            /\ Val(req[i].resp).http = 500
            /\ Val(req[i].resp).body # None
            /\ Val(req[i].resp).body.status = "error"

\* C24, the part that holds: the fault surfaces as HTTP 500, never as a
\* success; the response is the framework's, without a JSON envelope; a
\* request served from live rows does not touch the fixture and succeeds.
C24_Fault500 ==
    \A i \in Requests :
        req[i].pc = "done" =>
            /\ FixtureFault(i) => req[i].resp = Some(Uncaught500)
            /\ ~FixtureFault(i) =>
                  /\ Val(req[i].resp).http = 200
                  /\ Val(req[i].resp).xSource = "live"
                  /\ Val(req[i].resp).body.status = "success"

\* C24, the failing case reached: with credentials the token request fails,
\* the catch block cannot load the fixture, and the answer is a bare 500
C24_Bare500 ==
    \E i \in Requests :
        /\ FixtureFault(i) /\ useLive /\ req[i].fault # "none"
        /\ Val(req[i].resp).http = 500
        /\ Val(req[i].resp).body = None

-----------------------------------------------------------------------------
(* Properties of the fixture cache (Spec) *)

\* request i has been answered from the fixture
FromFixture(i) == req[i].pc = "done" /\ Val(req[i].resp).xSource # "live"

\* C25: after any sequence and interleaving of requests, MOCK_CACHE holds the
\* fixture's records in the fixture's order, as after its first load; the
\* defaults, filters, sort and reversal work on copies, so every request
\* answered from the fixture gets the result computed from the fixture as
\* loaded, and two identical requests get identical results.
C25_FixtureReadOnly ==
    /\ MOCK_CACHE \in {None, Some(MockReviews)}
    /\ \A i \in Requests :
          FromFixture(i) =>
              /\ MOCK_CACHE = Some(MockReviews)
              /\ Val(req[i].resp).body.result
                     = RowsAndCache(MockReviews, req[i].p).rows
              /\ req[i].resp
                     = Some(RespondTo(MockReviews, Val(req[i].resp).xSource, req[i].p))
    /\ \A i, k \in Requests :
          (FromFixture(i) /\ FromFixture(k) /\ req[i].p = req[k].p
              /\ Val(req[i].resp).xSource = Val(req[k].resp).xSource)
             => req[i].resp = req[k].resp

\* two requests with the same sort, answered one after the other from the
\* fixture with a result in another order than the fixture's, while the
\* cache still holds the fixture in its order
C25_Witness ==
    /\ MOCK_CACHE = Some(MockReviews)
    /\ FromFixture(1) /\ FromFixture(2)
    /\ req[1].p = req[2].p /\ SortKey(req[1].p) = RatingWord
    /\ req[1].resp = req[2].resp
    /\ Len(Val(req[1].resp).body.result) = 2
    /\ Val(req[1].resp).body.result[1].id # MockReviews[1].id

-----------------------------------------------------------------------------
(* Properties of concurrent token refreshes (Spec) *)

\* the requests whose token request is outstanding
InFlight == {i \in Requests : req[i].pc = "token"}

\* C26 as stated: at any moment at most one request to the token endpoint is
\* outstanding.
C26_SingleRefresh == Cardinality(InFlight) <= 1

\* C26 amended: refreshes are not coordinated: every live request that finds
\* the cache empty or expired sends its own token request, whether or not
\* another one is outstanding, so there can be as many outstanding as there
\* are concurrent requests; each one that succeeds stores its own response
\* over whatever the cache holds and goes on with its own token.
C26_RefreshPerRequest ==
    [][\A i \in Requests :
          /\ (LiveCall(i) /\ ~CacheFresh) => (Refresh(i) /\ InFlight' = InFlight \cup {i})
          /\ Refresh(i) => ~CacheFresh
          /\ Stored(i) =>
                /\ InFlight' = InFlight \ {i}
                /\ tokenCache' # None
                /\ Val(tokenCache').token = Val(req'[i].token)]_vars

\* two token requests are outstanding at once, the second sent while the
\* first was in flight
C26_Witness ==
    /\ Cardinality(InFlight) = 2
    /\ tokenCache = None
    /\ \E i, k \in InFlight : req[i].started < req[k].started

\* the token request of request i fails in this step
TokenFailed(i) ==
    req[i].pc = "token" /\ req'[i].pc = "done" /\ req'[i].fault \in TokenFaults

\* C27: when the token request is rejected or answered not ok, tokenCache
\* keeps its value (null, or the pair it held), the request is answered from
\* the fixture with x-source live-error-fallback, and the failure leaves
\* nothing behind that a later request would reuse: a request called while
\* the cache is empty or expired requests a token again.
C27_FailedRefreshKeepsCache ==
    [][\A i \in Requests :
          /\ TokenFailed(i) =>
                /\ tokenCache' = tokenCache
                /\ req'[i].token = None
                /\ req'[i].resp
                       = Some(RespondTo(MockReviews, "live-error-fallback", req[i].p))
                /\ \A k \in Requests \ {i} : req'[k] = req[k]
          /\ (LiveCall(i) /\ (tokenCache = None \/ now >= Val(tokenCache).exp))
                => (Refresh(i) /\ req'[i].started = now)]_vars

\* a refresh has failed and was answered from the fixture, the cache still
\* holds the expired pair of an earlier response, and another request is
\* requesting a token again
C27_Witness ==
    \E i, k \in Requests :
        /\ req[i].pc = "done" /\ req[i].fault = "token-not-ok"
        /\ Val(req[i].resp).xSource = "live-error-fallback"
        /\ tokenCache # None /\ now >= Val(tokenCache).exp
        /\ req[k].pc = "token" /\ req[k].started = now

-----------------------------------------------------------------------------
(* Properties of the order without a sort key (SpecQuery) *)

\* the rows that pass the filters, in the order of the collection
Filtered == ApplyFilters(Defaulted, TheQuery)

\* C28 as stated: when sort is absent or is neither "date" nor "rating", the
\* result is the filtered rows in collection order if order is any value
\* other than "desc", and in reversed collection order if order is absent or
\* "desc".
C28_OrderAsSent ==
    (Answered /\ (TheQuery.sort = None \/ Val(TheQuery.sort) \notin {DateWord, RatingWord})) =>
        IF TheQuery.order = None \/ TheQuery.order = Some(DescWord)
        THEN TheResult = Reverse(Filtered)
        ELSE TheResult = Filtered

\* sort names no key: absent, empty, or in lower case neither date nor rating
NamesNoKey(p) == ~Truthy(p.sort) \/ ToLowerCase(Val(p.sort)) \notin {DateWord, RatingWord}
\* order is descending: absent, empty, or "desc" in any case
Descending(p) == ~Truthy(p.order) \/ ToLowerCase(Val(p.order)) = DescWord

\* C28 amended: sort and order are compared in lower case and an empty value
\* counts as absent: when sort names no key, the result is the filtered rows
\* in reversed collection order if order is absent, empty or "desc" in any
\* case (DESC, Desc), and in collection order for every other order.
C28_OrderInLowerCase ==
    (Answered /\ NamesNoKey(TheQuery)) =>
        IF Descending(TheQuery)
        THEN TheResult = Reverse(Filtered)
        ELSE TheResult = Filtered

\* sort=id&order=DESC has been answered with the rows of the collection, more
\* than one, in reversed order
C28_Witness ==
    /\ Answered
    /\ TheQuery.sort = Some(<<"i","d">>) /\ TheQuery.order = Some(<<"D","E","S","C">>)
    /\ Len(TheResult) >= 2
    /\ TheResult = Reverse(Filtered) /\ TheResult # Filtered

\* ---- C29: the approval checkbox of the dashboard ----

\* the i-th listed row of tab t
Row(t, i) == dash[t].reviews[i]

\* C29: each click on the approval checkbox of a listed review flips its
\* effective approval state, a review whose record carries approved == true
\* included
C29_ClickFlips ==
    [][\A t \in Tabs, i \in 1..MaxRows :
          DashboardSetApproval(t, i)
              => (isApproved(Row(t, i), dash'[t].map)
                      <=> ~isApproved(Row(t, i), dash[t].map))]_vars

\* what the click does: the effective state flips for a review the server
\* has not approved, and stays approved for one it has
C29_FlipsUnlessServerApproved ==
    [][\A t \in Tabs, i \in 1..MaxRows :
          DashboardSetApproval(t, i)
              => IF ServerApproved(Row(t, i))
                 THEN isApproved(Row(t, i), dash'[t].map)
                 ELSE isApproved(Row(t, i), dash'[t].map)
                          <=> ~isApproved(Row(t, i), dash[t].map)]_vars

\* the state C29 fails in: a review approved by the server has been unchecked
\* on the dashboard (its stored entry is false), is still approved there, and
\* the public page loaded from that store shows it
C29_UncheckedStillShown ==
    /\ Loaded
    /\ pub.approvals = ReadApprovals
    /\ \E t \in Tabs :
          /\ dash[t].pc = "listed"
          /\ \E i \in DOMAIN dash[t].reviews :
                /\ ServerApproved(Row(t, i))
                /\ Lookup(dash[t].map, PropertyKey(Row(t, i).id)) = Some(FALSE)
                /\ Lookup(pub.approvals, PropertyKey(Row(t, i).id)) = Some(FALSE)
                /\ isApproved(Row(t, i), dash[t].map)
                /\ IsShown(Row(t, i))

\* a review the server has not approved is checked and unchecked again: it
\* is no longer approved, and the public page does not show it
C29_UncheckedHidden ==
    Loaded => \A t \in Tabs :
        dash[t].pc = "listed" => \A i \in DOMAIN dash[t].reviews :
            (/\ ~ServerApproved(Row(t, i))
             /\ Lookup(pub.approvals, PropertyKey(Row(t, i).id)) = Some(FALSE))
                => ~IsShown(Row(t, i))

\* ---- C30: approvals of two dashboard sessions ----

\* the ids of the reviews of the collection
ReviewIds == {qRows[i].id : i \in DOMAIN qRows}

\* localStorage.getItem('approvals') holds true for the id
StoredApproval(id) == Lookup(ReadApprovals, PropertyKey(id)) = Some(TRUE)

\* the session lists the review and its map holds true for it
HoldsApproval(s, id) ==
    /\ dash[s].pc = "listed"
    /\ \E i \in DOMAIN dash[s].reviews : dash[s].reviews[i].id = id
    /\ Lookup(dash[s].map, PropertyKey(id)) = Some(TRUE)

\* nothing in the session's map is unchecked
NothingUnchecked(s) == \A k \in DOMAIN dash[s].map : dash[s].map[k]

\* the public page has fetched the review and renders it
ShownById(id) ==
    \E k \in DOMAIN pub.reviews : pub.reviews[k].id = id /\ IsShown(pub.reviews[k])

\* C30: when two open dashboard sessions have each approved a different
\* review and unchecked nothing, the stored approval map contains both
\* approvals
C30_NoLostApprovals ==
    \A s1 \in Sessions, s2 \in Sessions, a \in ReviewIds, b \in ReviewIds :
        (/\ s1 # s2
         /\ a # b
         /\ HoldsApproval(s1, a) /\ NothingUnchecked(s1)
         /\ HoldsApproval(s2, b) /\ NothingUnchecked(s2))
            => (StoredApproval(a) /\ StoredApproval(b))

\* the state C30 fails in: each of two sessions has approved one review the
\* other has not, the store holds only one of the two approvals, and the
\* public page of the listing, loaded from that store, has fetched both
\* reviews and shows only that one
C30_ApprovalLost ==
    /\ Loaded
    /\ pub.approvals = ReadApprovals
    /\ \E s1 \in Sessions, s2 \in Sessions, a \in ReviewIds, b \in ReviewIds :
          /\ s1 # s2
          /\ a # b
          /\ \E k \in DOMAIN pub.reviews : pub.reviews[k].id = a
          /\ HoldsApproval(s1, a) /\ ~HoldsApproval(s2, a) /\ NothingUnchecked(s1)
          /\ HoldsApproval(s2, b) /\ ~HoldsApproval(s1, b) /\ NothingUnchecked(s2)
          /\ ~StoredApproval(a) /\ StoredApproval(b)
          /\ ~ShownById(a) /\ ShownById(b)

\* what the store does hold: the map of the session that wrote last, so
\* every write of a session replaces the store by that session's own map
C30_LastWriterWins ==
    [][\A s \in Sessions :
          (dash'[s].pc = "listed" /\ dash'[s].map # dash[s].map)
              => localStorage' = Some(dash'[s].map)]_vars

====
